---- MODULE Spec2Model ----
(***************************************************************************)
(* Model of the flow table (flow.c) and of the TCP connection tracking     *)
(* built on it (tcp.c): free-cluster allocator, deferred pass, hash index  *)
(* with linear probing, connection events.                                 *)
(***************************************************************************)
EXTENDS Integers, Naturals, Sequences, FiniteSets, TLC

(***************************************************************************)
(* Bounds of the model                                                     *)
(***************************************************************************)
\* Number of slots of flowtab[] (128k in the program)
FLOW_MAX == 6

\* Descriptors the process may hold for connections (RLIMIT_NOFILE)
MaxFds == 3

(***************************************************************************)
(* Flow types (enum flow_type) and the free-cluster overlay                *)
(***************************************************************************)
FLOW_TYPE_NONE == "FLOW_TYPE_NONE"
FLOW_TCP == "FLOW_TCP"
FLOW_TCP_SPLICE == "FLOW_TCP_SPLICE"
FLOW_PING4 == "FLOW_PING4"
FLOW_PING6 == "FLOW_PING6"

FlowTypes == {FLOW_TCP, FLOW_TCP_SPLICE, FLOW_PING4, FLOW_PING6}

\* Content of free.n / free.next of a slot whose union holds the fields of a
\* started flow: those words are type specific data, no cluster metadata.
OVERLAID == -1

\* No free cluster head yet (free_head == NULL), and last_next == &flow_first_free
NULL == -1
FIRST_FREE_REF == -1

VARIABLES
    flow_first_free,    \* unsigned flow_first_free
    flowtab,            \* union flow flowtab[FLOW_MAX]
    epoll,              \* the kernel's epoll interest list: fd -> registration
    tc_hash,            \* flow_sidx_t tc_hash[TCP_HASH_TABLE_SIZE]
    hash_secret,        \* c->hash_secret, as the bucket function it induces
    open_fds,           \* descriptors held for TCP connections (sockets, timers)
    was_closed,         \* history: flows that had conn_event(CLOSED), not freed yet
    aborted,            \* an ASSERT() failed
    op,                 \* the last operation and what it returned
    tap,                \* tcp4_l2_buf, tcp4_l2_flags_buf, the tap device (tap.c)
    cmp,                \* two sequence numbers and the results of their comparisons
    seqs,               \* sequence numbers towards the tap of one connection
    fwd,                \* forwarding configuration
    ref,                \* descriptors and epoll references
    strm,               \* the stream of frames from the guest
    snat,               \* the address of an accepted peer
    wnd,                \* the window advertised to the guest by one connection
    dup,                \* data segments of the guest and duplicate ACKs of one connection
    tapc,               \* the connection of the client on the AF_UNIX socket
    udpt,               \* UDP bindings, their activity bits and timestamps
    rebind,             \* inbound TCP forwarding in FWD_AUTO mode: map, table, sockets
    tmr,                \* the timer of one connection, with time
    dft,                \* tcp_data_from_tap() of batches of the guest
    ftm                 \* the timer of the flows and the clock

\* The flow table and the connection tracking built on it
tcpvars == <<flow_first_free, flowtab, epoll, tc_hash, hash_secret, open_fds,
             was_closed, aborted, op>>

\* What the handlers of the flow table and of the connection events leave alone
aux == <<tap, cmp, seqs, fwd, ref, strm, snat, wnd, dup, tapc, udpt, rebind, tmr, dft, ftm>>

vars == <<tcpvars, aux>>

FlowIdx == 0..(FLOW_MAX - 1)

\* A slot as left by memset(flow, 0, sizeof(*flow))
ZeroFlow ==
    [type |-> FLOW_TYPE_NONE, n |-> 0, next |-> 0,
     events |-> {}, flags |-> {}, sock |-> 0, timer |-> 0, in_epoll |-> FALSE,
     faddr |-> "0.0.0.0", eport |-> 0, fport |-> 0]

\* flow_init(): a single free cluster containing the whole table
flow_init ==
    [i \in FlowIdx |->
        IF i = 0 THEN [ZeroFlow EXCEPT !.n = FLOW_MAX, !.next = FLOW_MAX]
        ELSE ZeroFlow]

\* flow_start(): set the type; the type specific fields written afterwards
\* share their storage with free.n and free.next
flow_start(flow, type) ==
    [flow EXCEPT !.type = type, !.n = OVERLAID, !.next = OVERLAID]

\* flow_end(): clear the type of a finished flow; what is left of the type
\* specific fields is dead until the next memset() in flow_alloc()
flow_end(flow) ==
    IF flow.type = FLOW_TYPE_NONE THEN flow
    ELSE [ZeroFlow EXCEPT !.n = flow.n, !.next = flow.next]

(***************************************************************************)
(* flow_alloc(): result is [idx, first, tab, abort]; idx = NULL for a NULL  *)
(* return                                                                  *)
(***************************************************************************)
\* Mutant: the new head of the shortened cluster keeps no link to the next
\* cluster (next->free.next is not copied)
flow_alloc_split_no_next(first, tab) ==
    [tab EXCEPT ![first + 1].n = tab[first].n - 1]

\* Use one entry from the cluster: the next slot becomes the head
flow_alloc_split(first, tab) ==
    [tab EXCEPT ![first + 1].n = tab[first].n - 1,
                ![first + 1].next = tab[first].next]

\* Mutant: the head moves to the following slot instead of the next cluster
flow_alloc_entire_cluster_adjacent(first, tab) ==
    first + 1

\* Use the entire cluster: flow_first_free = flow->free.next
flow_alloc_entire_cluster(first, tab) ==
    tab[first].next

\* flow_alloc() handing out the last slot again when the table is full
flow_alloc_reuse_last(first, tab) ==
    IF first >= FLOW_MAX
    THEN [idx |-> FLOW_MAX - 1, first |-> first,
          tab |-> [tab EXCEPT ![FLOW_MAX - 1] = ZeroFlow], abort |-> FALSE]
    ELSE LET flow == tab[first] IN
         IF \/ flow.type # FLOW_TYPE_NONE
            \/ ~(flow.n >= 1)
            \/ ~(first + flow.n <= FLOW_MAX)
         THEN [idx |-> NULL, first |-> first, tab |-> tab, abort |-> TRUE]
         ELSE IF flow.n > 1
         THEN IF \/ ~(first <= FLOW_MAX - 2)
                 \/ tab[first + 1].type # FLOW_TYPE_NONE
                 \/ tab[first + 1].n # 0
              THEN [idx |-> NULL, first |-> first, tab |-> tab, abort |-> TRUE]
              ELSE [idx |-> first,
                    first |-> first + 1,
                    tab |-> [flow_alloc_split(first, tab) EXCEPT ![first] = ZeroFlow],
                    abort |-> FALSE]
         ELSE [idx |-> first,
               first |-> flow_alloc_entire_cluster(first, tab),
               tab |-> [tab EXCEPT ![first] = ZeroFlow],
               abort |-> FALSE]

flow_alloc(first, tab) ==
    IF first >= FLOW_MAX
    THEN [idx |-> NULL, first |-> first, tab |-> tab, abort |-> FALSE]
    ELSE LET flow == tab[first] IN
         IF \/ flow.type # FLOW_TYPE_NONE
            \/ ~(flow.n >= 1)
            \/ ~(first + flow.n <= FLOW_MAX)
         THEN [idx |-> NULL, first |-> first, tab |-> tab, abort |-> TRUE]
         ELSE IF flow.n > 1
         THEN IF \/ ~(first <= FLOW_MAX - 2)
                 \/ tab[first + 1].type # FLOW_TYPE_NONE
                 \/ tab[first + 1].n # 0
              THEN [idx |-> NULL, first |-> first, tab |-> tab, abort |-> TRUE]
              ELSE [idx |-> first,
                    first |-> first + 1,
                    tab |-> [flow_alloc_split(first, tab) EXCEPT ![first] = ZeroFlow],
                    abort |-> FALSE]
         ELSE [idx |-> first,
               first |-> flow_alloc_entire_cluster(first, tab),
               tab |-> [tab EXCEPT ![first] = ZeroFlow],
               abort |-> FALSE]

(***************************************************************************)
(* flow_alloc_cancel(): result is [first, tab, abort]                      *)
(***************************************************************************)
\* Mutant: flow_first_free is not set back to the cancelled slot
flow_alloc_cancel_keep_first(first, tab, idx) ==
    IF ~(first > idx)
    THEN [first |-> first, tab |-> tab, abort |-> TRUE]
    ELSE [first |-> first,
          tab |-> [tab EXCEPT ![idx] =
                      [flow_end(tab[idx]) EXCEPT !.n = 1, !.next = first]],
          abort |-> FALSE]

flow_alloc_cancel(first, tab, idx) ==
    IF ~(first > idx)
    THEN [first |-> first, tab |-> tab, abort |-> TRUE]
    ELSE [first |-> idx,
          tab |-> [tab EXCEPT ![idx] =
                      [flow_end(tab[idx]) EXCEPT !.n = 1, !.next = first]],
          abort |-> FALSE]

(***************************************************************************)
(* tcp_flow_defer(): a closed connection has its socket and its timer      *)
(* closed and reports true                                                 *)
(***************************************************************************)
\* No events: the connection is closed.  events and flags are the sets of the
\* bits that are set.
CLOSED == {}

Fds == 1..MaxFds

\* No registration of a descriptor in the epoll list
NoReg == [kind |-> "none", flow |-> 0, ev |-> {}]

\* close(): the descriptor is released and leaves the epoll list
close(st, fd) ==
    IF fd \in st.fds
    THEN [st EXCEPT !.fds = @ \ {fd}, !.epoll[fd] = NoReg]
    ELSE st

tcp_flow_defer_closed(flow) ==
    flow.events = CLOSED

tcp_flow_defer(st, idx) ==
    LET conn == st.tab[idx] IN
    IF conn.events # CLOSED THEN st
    ELSE LET st1 == close(st, conn.sock) IN
         IF conn.timer # -1 THEN close(st1, conn.timer) ELSE st1

(***************************************************************************)
(* flow_defer_handler()                                                    *)
(*   st: [tab, first, free_head, last_next, fds, epoll, abort]             *)
(*   timer: FLOW_TIMER_INTERVAL elapsed since the timers last ran          *)
(*   expired: the flows whose tcp_splice_flow_defer() or icmp_ping_timer() *)
(*            reports true when called in this pass                        *)
(***************************************************************************)
\* *last_next = idx
store_last_next(st, idx) ==
    IF st.last_next = FIRST_FREE_REF
    THEN [st EXCEPT !.first = idx]
    ELSE [st EXCEPT !.tab[st.last_next].next = idx]

\* Mutant: a merged cluster's length is not added to the preceding cluster
flow_defer_free_slot_no_add(st, idx) ==
    IF st.free_head # NULL
    THEN [st EXCEPT !.tab[idx].n = 0,
                    !.tab[idx].next = 0]
    ELSE [store_last_next(st, idx) EXCEPT !.free_head = idx,
                                          !.last_next = idx]

\* The body of the loop for a slot of type FLOW_TYPE_NONE
flow_defer_free_slot(st, idx) ==
    LET flow == st.tab[idx] IN
    IF st.free_head # NULL
    THEN \* Merge into preceding free cluster
         [st EXCEPT !.tab[st.free_head].n = @ + flow.n,
                    !.tab[idx].n = 0,
                    !.tab[idx].next = 0]
    ELSE \* New free cluster, add to chain
         [store_last_next(st, idx) EXCEPT !.free_head = idx,
                                          !.last_next = idx]

\* The per-type switch: whether the flow reports closed
flow_defer_closed(flow, idx, timer, expired) ==
    CASE flow.type = FLOW_TCP -> tcp_flow_defer_closed(flow)
      [] flow.type = FLOW_TCP_SPLICE -> idx \in expired
      [] flow.type \in {FLOW_PING4, FLOW_PING6} -> timer /\ idx \in expired
      [] OTHER -> FALSE

\* Mutant: a closed slot always starts a cluster of its own
flow_defer_end_slot_no_merge(st, idx, closed) ==
    IF closed
    THEN LET ended == [st EXCEPT !.tab[idx] = flow_end(st.tab[idx])] IN
         [store_last_next([ended EXCEPT !.tab[idx].n = 1], idx)
             EXCEPT !.free_head = idx, !.last_next = idx]
    ELSE [st EXCEPT !.free_head = NULL]

\* if (closed) { flow_end(flow); ... } else { free_head = NULL; }
flow_defer_end_slot(st, idx, closed) ==
    IF closed
    THEN LET ended == [st EXCEPT !.tab[idx] = flow_end(st.tab[idx])] IN
         IF st.free_head # NULL
         THEN \* Add slot to current free cluster
              IF idx # st.free_head + st.tab[st.free_head].n
              THEN [st EXCEPT !.abort = TRUE]
              ELSE [ended EXCEPT !.tab[st.free_head].n = @ + 1,
                                 !.tab[idx].n = 0,
                                 !.tab[idx].next = 0]
         ELSE \* Create new free cluster
              [store_last_next([ended EXCEPT !.tab[idx].n = 1], idx)
                  EXCEPT !.free_head = idx, !.last_next = idx]
    ELSE [st EXCEPT !.free_head = NULL]

RECURSIVE flow_defer_loop(_, _, _, _)
flow_defer_loop(st, idx, timer, expired) ==
    IF st.abort \/ idx >= FLOW_MAX THEN st
    ELSE LET flow == st.tab[idx] IN
         IF flow.type = FLOW_TYPE_NONE
         THEN LET skip == flow.n IN
              IF skip = 0 THEN [st EXCEPT !.abort = TRUE]
              ELSE flow_defer_loop(flow_defer_free_slot(st, idx),
                                   idx + skip, timer, expired)
         ELSE LET closed == flow_defer_closed(flow, idx, timer, expired)
                  st1 == IF flow.type = FLOW_TCP
                         THEN tcp_flow_defer(st, idx)
                         ELSE st
              IN  flow_defer_loop(flow_defer_end_slot(st1, idx, closed),
                                  idx + 1, timer, expired)

flow_defer_handler(first, tab, fds, ep, timer, expired) ==
    LET st0 == [tab |-> tab, first |-> first, free_head |-> NULL,
                last_next |-> FIRST_FREE_REF, fds |-> fds, epoll |-> ep,
                abort |-> FALSE]
        st == flow_defer_loop(st0, 0, timer, expired)
    IN  IF st.abort THEN st ELSE store_last_next(st, FLOW_MAX)


(***************************************************************************)
(* TCP hash table: sizes and the empty bucket                              *)
(***************************************************************************)
TCP_HASH_TABLE_LOAD == 70
TCP_HASH_TABLE_SIZE == (FLOW_MAX * 100) \div TCP_HASH_TABLE_LOAD

Buckets == 0..(TCP_HASH_TABLE_SIZE - 1)

\* FLOW_SIDX_NONE: a side index whose flow is no slot of the table.  Every
\* entry of tc_hash[] is the TAPSIDE of a connection, so a bucket is modelled
\* by the flow index alone.
FLOW_SIDX_NONE == FLOW_MAX

\* Addresses: the gateway (c->ip4.gw), the guest address seen
\* (c->ip4.addr_seen), the loopback address and a remote host
Addrs == {"gw", "addr_seen", "loopback", "remote"}

\* Forwarding addresses the guest sees, guest ports and remote ports in use
Faddrs == {"gw", "remote"}
Eports == 1..1
Fports == 1..2
Keys == Faddrs \X Eports \X Fports

\* tcp_init(): every bucket empty
tcp_init == [b \in Buckets |-> FLOW_SIDX_NONE]

(***************************************************************************)
(* Connection events and flags (bit sets), in the order of tcp_event_str[] *)
(* and tcp_flag_str[]; TAP_SYN_ACK_SENT and SOCK_FIN_RCVD share a bit      *)
(***************************************************************************)
SOCK_ACCEPTED == {0}
TAP_SYN_RCVD == {1}
ESTABLISHED == {2}
TAP_SYN_ACK_SENT == {3}
SOCK_FIN_RCVD == {3}
SOCK_FIN_SENT == {4}
TAP_FIN_RCVD == {5}
TAP_FIN_SENT == {6}
TAP_FIN_ACKED == {7}

CONN_STATE_BITS == SOCK_ACCEPTED \cup TAP_SYN_RCVD \cup ESTABLISHED

STALLED == {0}
\* LOCAL (a reserved word here)
LOCAL_FLAG == {1}
ACTIVE_CLOSE == {2}
ACK_TO_TAP_DUE == {3}
ACK_FROM_TAP_DUE == {4}

\* ~flag, over the bits of uint8_t flags
FlagBits == 0..7
Not(flag) == FlagBits \ flag

CONN_HAS(conn, set) == set \subseteq conn.events

(***************************************************************************)
(* Handlers work on a context c: [tab, first, hash, fds, epoll, closed,    *)
(* abort, ret], the program's state while the handler runs and, in ret,    *)
(* the value the call just made returned                                   *)
(***************************************************************************)
\* The lowest descriptor not in use, -1 if there is none (EMFILE)
fd_alloc(fds) ==
    IF Fds \ fds = {} THEN -1
    ELSE CHOOSE fd \in Fds \ fds : \A g \in Fds \ fds : fd <= g

\* return v
SetRet(c, v) == [c EXCEPT !.ret = v]

\* epoll_ctl(): ret is 0, or -1 on error
epoll_ctl_add(c, fd, reg) ==
    IF fd \in c.fds /\ c.epoll[fd] = NoReg
    THEN [c EXCEPT !.epoll[fd] = reg, !.ret = 0]
    ELSE [c EXCEPT !.ret = -1]

epoll_ctl_mod(c, fd, reg) ==
    IF fd \in c.fds /\ c.epoll[fd] # NoReg
    THEN [c EXCEPT !.epoll[fd] = reg, !.ret = 0]
    ELSE [c EXCEPT !.ret = -1]

epoll_ctl_del(c, fd) ==
    IF fd \in c.fds THEN [c EXCEPT !.epoll[fd] = NoReg] ELSE c

\* tcp_conn_epoll_events() testing STALLED before TAP_FIN_SENT
tcp_conn_epoll_events_stalled_first(events, conn_flags) ==
    IF events = {} THEN {}
    ELSE IF events \cap ESTABLISHED # {}
    THEN IF conn_flags \cap STALLED # {}
         THEN {"EPOLLIN", "EPOLLOUT", "EPOLLRDHUP", "EPOLLET"}
         ELSE IF events \cap TAP_FIN_SENT # {} THEN {"EPOLLET"}
         ELSE {"EPOLLIN", "EPOLLRDHUP"}
    ELSE IF events = TAP_SYN_RCVD THEN {"EPOLLOUT", "EPOLLET", "EPOLLRDHUP"}
    ELSE {"EPOLLRDHUP"}

tcp_conn_epoll_events(events, conn_flags) ==
    IF events = {} THEN {}
    ELSE IF events \cap ESTABLISHED # {}
    THEN IF events \cap TAP_FIN_SENT # {} THEN {"EPOLLET"}
         ELSE IF conn_flags \cap STALLED # {}
         THEN {"EPOLLIN", "EPOLLOUT", "EPOLLRDHUP", "EPOLLET"}
         ELSE {"EPOLLIN", "EPOLLRDHUP"}
    ELSE IF events = TAP_SYN_RCVD THEN {"EPOLLOUT", "EPOLLET", "EPOLLRDHUP"}
    ELSE {"EPOLLRDHUP"}

TimerReg(idx) == [kind |-> "timer", flow |-> idx, ev |-> {"EPOLLIN", "EPOLLET"}]

SockReg(c, idx) ==
    [kind |-> "sock", flow |-> idx,
     ev |-> tcp_conn_epoll_events(c.tab[idx].events, c.tab[idx].flags)]

\* tcp_epoll_ctl(), once epoll_ctl() was called for the socket
tcp_epoll_ctl_timer(c, idx) ==
    IF c.ret # 0 THEN c
    ELSE IF c.tab[idx].timer # -1
    THEN epoll_ctl_mod([c EXCEPT !.tab[idx].in_epoll = TRUE],
                       c.tab[idx].timer, TimerReg(idx))
    ELSE [c EXCEPT !.tab[idx].in_epoll = TRUE]

\* tcp_epoll_ctl() of a closed connection, once the socket was dealt with
tcp_epoll_ctl_closed(c, idx) ==
    IF c.tab[idx].timer # -1 THEN epoll_ctl_del(c, c.tab[idx].timer) ELSE c

tcp_epoll_ctl(c, idx) ==
    IF c.tab[idx].events = CLOSED
    THEN tcp_epoll_ctl_closed(IF c.tab[idx].in_epoll
                              THEN epoll_ctl_del(c, c.tab[idx].sock)
                              ELSE c,
                              idx)
    ELSE tcp_epoll_ctl_timer(IF c.tab[idx].in_epoll
                             THEN epoll_ctl_mod(c, c.tab[idx].sock, SockReg(c, idx))
                             ELSE epoll_ctl_add(c, c.tab[idx].sock, SockReg(c, idx)),
                             idx)

\* tcp_timer_ctl(), once epoll_ctl() was called for the new timer fd
tcp_timer_ctl_added(c, idx, fd) ==
    IF c.ret = 0 THEN c
    ELSE [close(c, fd) EXCEPT !.tab[idx].timer = -1]

\* tcp_timer_ctl() of a connection without timer, fd: what timerfd_create()
\* returns
tcp_timer_ctl_create(c, idx, fd) ==
    IF fd = -1 THEN [c EXCEPT !.tab[idx].timer = -1]
    ELSE tcp_timer_ctl_added(
             epoll_ctl_add([c EXCEPT !.fds = @ \cup {fd}, !.tab[idx].timer = fd],
                           fd, TimerReg(idx)),
             idx, fd)

\* The timeout is not part of the state: the timer is created if needed
tcp_timer_ctl(c, idx) ==
    IF c.tab[idx].events = CLOSED THEN c
    ELSE IF c.tab[idx].timer # -1 THEN c
    ELSE tcp_timer_ctl_create(c, idx, fd_alloc(c.fds))

\* conn_flag_do(), once the flag is set or dropped: tcp_epoll_ctl()
conn_flag_do_epoll(c, idx, flag) ==
    IF flag = STALLED \/ flag = Not(STALLED) THEN tcp_epoll_ctl(c, idx) ELSE c

\* conn_flag_do(), at last: tcp_timer_ctl()
conn_flag_do_timer(c, idx, flag) ==
    IF \/ flag = ACK_FROM_TAP_DUE
       \/ flag = ACK_TO_TAP_DUE
       \/ flag = Not(ACK_FROM_TAP_DUE)
          /\ c.tab[idx].flags \cap ACK_TO_TAP_DUE # {}
       \/ flag = Not(ACK_TO_TAP_DUE)
          /\ c.tab[idx].flags \cap ACK_FROM_TAP_DUE # {}
    THEN tcp_timer_ctl(c, idx)
    ELSE c

conn_flag_do(c, idx, flag) ==
    IF Cardinality(flag) > 1
    THEN IF c.tab[idx].flags \cap Not(flag) = {} THEN c
         ELSE conn_flag_do_timer(
                  conn_flag_do_epoll([c EXCEPT !.tab[idx].flags = @ \cap flag],
                                     idx, flag),
                  idx, flag)
    ELSE IF c.tab[idx].flags \cap flag # {}
         THEN IF flag = ACK_FROM_TAP_DUE THEN tcp_timer_ctl(c, idx) ELSE c
         ELSE conn_flag_do_timer(
                  conn_flag_do_epoll([c EXCEPT !.tab[idx].flags = @ \cup flag],
                                     idx, flag),
                  idx, flag)
(***************************************************************************)
(* Hash table of connections: linear probing downwards, removal shifting   *)
(* the entries of the cluster back                                         *)
(***************************************************************************)
mod_sub(a, b, m) == (IF a < b THEN a + m ELSE a) - b

mod_between(x, i, j, m) == mod_sub(x, i, m) < mod_sub(j, i, m)

\* The flow a side index refers to, NULL if it is no slot of the table
flow_at_sidx(sidx) == IF sidx >= FLOW_MAX THEN NULL ELSE sidx

tcp_hash_match(conn, faddr, eport, fport) ==
    conn.faddr = faddr /\ conn.eport = eport /\ conn.fport = fport

\* siphash of the address and the ports, keyed with c->hash_secret
tcp_hash(faddr, eport, fport) == hash_secret[<<faddr, eport, fport>>]

tcp_conn_hash(conn) == tcp_hash(conn.faddr, conn.eport, conn.fport)

RECURSIVE tcp_hash_probe_from(_, _, _)
tcp_hash_probe_from(hash, sidx, b) ==
    IF hash[b] # FLOW_SIDX_NONE /\ hash[b] # sidx
    THEN tcp_hash_probe_from(hash, sidx, mod_sub(b, 1, TCP_HASH_TABLE_SIZE))
    ELSE b

tcp_hash_probe(hash, tab, idx) ==
    tcp_hash_probe_from(hash, idx, tcp_conn_hash(tab[idx]) % TCP_HASH_TABLE_SIZE)

tcp_hash_insert(hash, tab, idx) ==
    [hash EXCEPT ![tcp_hash_probe(hash, tab, idx)] = idx]

\* Mutant: no entry is ever shifted back
tcp_hash_remove_shuffle_never(h, s, b) ==
    FALSE

\* tc_hash[s], whose own bucket is h, can live in tc_hash[b]'s slot
tcp_hash_remove_shuffle(h, s, b) ==
    ~mod_between(h, s, b, TCP_HASH_TABLE_SIZE)

\* Scan the remainder of the cluster
RECURSIVE tcp_hash_remove_scan(_, _, _, _)
tcp_hash_remove_scan(hash, tab, b, s) ==
    IF flow_at_sidx(hash[s]) = NULL
    THEN [hash EXCEPT ![b] = FLOW_SIDX_NONE]
    ELSE LET h == tcp_conn_hash(tab[hash[s]]) % TCP_HASH_TABLE_SIZE
             s1 == mod_sub(s, 1, TCP_HASH_TABLE_SIZE)
         IN  IF tcp_hash_remove_shuffle(h, s, b)
             THEN tcp_hash_remove_scan([hash EXCEPT ![b] = hash[s]], tab, s, s1)
             ELSE tcp_hash_remove_scan(hash, tab, b, s1)

tcp_hash_remove(hash, tab, idx) ==
    LET b == tcp_hash_probe(hash, tab, idx) IN
    IF flow_at_sidx(hash[b]) = NULL THEN hash
    ELSE tcp_hash_remove_scan(hash, tab, b, mod_sub(b, 1, TCP_HASH_TABLE_SIZE))

RECURSIVE tcp_hash_lookup_from(_, _, _, _, _, _)
tcp_hash_lookup_from(hash, tab, b, faddr, eport, fport) ==
    LET flow == flow_at_sidx(hash[b]) IN
    IF flow # NULL /\ ~tcp_hash_match(tab[flow], faddr, eport, fport)
    THEN tcp_hash_lookup_from(hash, tab, mod_sub(b, 1, TCP_HASH_TABLE_SIZE),
                              faddr, eport, fport)
    ELSE flow

\* The flow found, NULL if there is none
tcp_hash_lookup(hash, tab, faddr, eport, fport) ==
    tcp_hash_lookup_from(hash, tab,
                         tcp_hash(faddr, eport, fport) % TCP_HASH_TABLE_SIZE,
                         faddr, eport, fport)

(***************************************************************************)
(* conn_event_do()                                                         *)
(***************************************************************************)
\* Mutant: a state bit is added to the events like any other event
conn_event_set_cumulative(events, event) ==
    IF event = CLOSED THEN event ELSE events \cup event

\* The new value of conn->events
conn_event_set(events, event) ==
    IF event = CLOSED \/ event \cap CONN_STATE_BITS # {}
    THEN event
    ELSE events \cup event

\* conn_event_do(), the event being set: hash table, flags, epoll
conn_event_do_update(c, idx, event) ==
    IF event = CLOSED
    THEN [c EXCEPT !.hash = tcp_hash_remove(@, c.tab, idx),
                   !.closed = @ \cup {idx}]
    ELSE IF event = TAP_FIN_RCVD /\ c.tab[idx].events \cap SOCK_FIN_RCVD = {}
    THEN conn_flag_do(c, idx, ACTIVE_CLOSE)
    ELSE tcp_epoll_ctl(c, idx)

\* conn_event_do(), at last: tcp_timer_ctl()
conn_event_do_timer(c, idx) ==
    IF CONN_HAS(c.tab[idx], SOCK_FIN_SENT \cup TAP_FIN_ACKED)
    THEN tcp_timer_ctl(c, idx)
    ELSE c

conn_event_do(c, idx, event) ==
    IF c.tab[idx].events \cap event # {} THEN c
    ELSE conn_event_do_timer(
             conn_event_do_update(
                 [c EXCEPT !.tab[idx].events = conn_event_set(@, event)],
                 idx, event),
             idx)
(***************************************************************************)
(* The outcomes of system calls and of sequence comparisons are inputs of  *)
(* a handler, env:                                                         *)
(*   tinfo_err  getsockopt(TCP_INFO) fails on the connection's socket      *)
(*   ack_noop   nothing to acknowledge and a window is advertised          *)
(*   wnd        tcp_update_seqack_wnd(): "same", "upd", "zero" (window     *)
(*              updated to zero)                                           *)
(*   acked      SEQ_GE(seq_ack_to_tap, seq_from_tap)                       *)
(*   recv       tcp_data_from_sock(): "stall" (no window left), "err",     *)
(*              "eagain", "eof", "nonew" (nothing but sent data), "data"   *)
(***************************************************************************)
ACK_IF_NEEDED == {}

\* tcp_update_seqack_wnd(): ret is 1 if the sequence or the window changed
tcp_update_seqack_wnd(c, idx, env) ==
    SetRet(IF env.wnd = "zero" THEN conn_flag_do(c, idx, ACK_TO_TAP_DUE) ELSE c,
           IF env.wnd # "same" THEN 1 ELSE 0)

\* ack: "all" (seq == seq_to_tap), "some" (progress, more to acknowledge),
\* "old" (no progress)
tcp_update_seqack_from_tap(c, idx, ack) ==
    CASE ack = "all" -> conn_flag_do(c, idx, Not(ACK_FROM_TAP_DUE))
      [] ack = "some" -> conn_flag_do(c, idx, ACK_FROM_TAP_DUE)
      [] OTHER -> c

\* The flags of the segment sent
tcp_send_flag_th(flags) ==
    IF "SYN" \in flags \/ "RST" \in flags THEN flags ELSE flags \cup {"ACK"}

\* tcp_send_flag(), the segment being sent: flags for ACK, then for FIN
tcp_send_flag_ack(c, idx, th, env) ==
    IF "ACK" \in th
    THEN conn_flag_do(c, idx, IF env.acked THEN Not(ACK_TO_TAP_DUE)
                              ELSE ACK_TO_TAP_DUE)
    ELSE c

tcp_send_flag_fin(c, idx, th) ==
    IF "FIN" \in th THEN conn_flag_do(c, idx, ACK_FROM_TAP_DUE) ELSE c

\* tcp_send_flag(), once tcp_update_seqack_wnd() returned
tcp_send_flag_fill(c, idx, flags, env) ==
    IF c.ret = 0 /\ flags = ACK_IF_NEEDED THEN SetRet(c, 0)
    ELSE SetRet(tcp_send_flag_fin(
                    tcp_send_flag_ack(c, idx, tcp_send_flag_th(flags), env),
                    idx, tcp_send_flag_th(flags)),
                0)

\* tcp_send_flag(): ret is 0 or -ECONNRESET (as -1)
tcp_send_flag(c, idx, flags, env) ==
    IF flags = ACK_IF_NEEDED /\ env.ack_noop THEN SetRet(c, 0)
    ELSE IF env.tinfo_err THEN SetRet(conn_event_do(c, idx, CLOSED), -1)
    ELSE tcp_send_flag_fill(tcp_update_seqack_wnd(c, idx, env), idx, flags, env)

\* tcp_rst_do(), once tcp_send_flag() returned
tcp_rst_do_sent(c, idx) ==
    IF c.ret = 0 THEN conn_event_do(c, idx, CLOSED) ELSE c

tcp_rst_do(c, idx, env) ==
    IF c.tab[idx].events = CLOSED THEN c
    ELSE tcp_rst_do_sent(tcp_send_flag(c, idx, {"RST"}, env), idx)

\* tcp_data_from_sock() at end of file, once tcp_send_flag() returned
tcp_data_from_sock_fin(c, idx, env) ==
    IF c.ret # 0 THEN SetRet(tcp_rst_do(c, idx, env), -1)
    ELSE SetRet(conn_event_do(c, idx, TAP_FIN_SENT), 0)

\* tcp_data_from_sock(): ret is 0 or negative
tcp_data_from_sock(c, idx, env) ==
    CASE env.recv = "stall" ->
           SetRet(conn_flag_do(conn_flag_do(c, idx, STALLED), idx,
                               ACK_FROM_TAP_DUE), 0)
      [] env.recv = "err" -> SetRet(tcp_rst_do(c, idx, env), -1)
      [] env.recv = "eagain" -> SetRet(c, 0)
      [] env.recv = "eof" ->
           IF c.tab[idx].events \cap (SOCK_FIN_RCVD \cup TAP_FIN_SENT) = SOCK_FIN_RCVD
           THEN tcp_data_from_sock_fin(tcp_send_flag(c, idx, {"FIN", "ACK"}, env),
                                       idx, env)
           ELSE SetRet(c, 0)
      [] env.recv = "nonew" -> SetRet(conn_flag_do(c, idx, STALLED), 0)
      [] OTHER ->
           SetRet(conn_flag_do(
                      tcp_update_seqack_wnd(conn_flag_do(c, idx, Not(STALLED)),
                                            idx, env),
                      idx, ACK_FROM_TAP_DUE), 0)

(***************************************************************************)
(* New connections.  in: the outcomes the handler meets                    *)
(*   valid    the endpoints of the SYN or of accept() are acceptable       *)
(*   bind     tcp_conn_from_tap(): "ok" (the address is local and nobody   *)
(*            listens), "local" (other errors), "remote" (EADDRNOTAVAIL,   *)
(*            EACCES)                                                      *)
(*   connect  "ok", "inprogress", "err"                                    *)
(***************************************************************************)
\* flow_alloc() on the context: ret is the slot, or NULL
flow_alloc_ctx(c) ==
    LET a == flow_alloc(c.first, c.tab) IN
    [c EXCEPT !.first = a.first, !.tab = a.tab, !.abort = @ \/ a.abort,
              !.ret = a.idx]

\* goto cancel
tcp_cancel(c, idx) ==
    LET r == flow_alloc_cancel(c.first, c.tab, idx) IN
    [c EXCEPT !.first = r.first, !.tab = r.tab, !.abort = @ \/ r.abort]

\* FLOW_START(flow, FLOW_TCP, ...); conn->sock = s; conn->timer = -1
tcp_conn_start(c, idx, s) ==
    [c EXCEPT !.tab[idx] = [flow_start(@, FLOW_TCP) EXCEPT !.sock = s,
                                                           !.timer = -1]]

\* conn->faddr, conn->eport, conn->fport are set and the flow enters the table
tcp_conn_hash_insert(c, idx, faddr, eport, fport) ==
    [c EXCEPT !.tab[idx].faddr = faddr,
              !.tab[idx].eport = eport,
              !.tab[idx].fport = fport,
              !.hash = tcp_hash_insert(@, [c.tab EXCEPT ![idx].faddr = faddr,
                                                        ![idx].eport = eport,
                                                        ![idx].fport = fport],
                                       idx)]

\* tcp_conn_from_tap(), once tcp_send_flag(SYN | ACK) returned
tcp_conn_from_tap_synack(c, idx) ==
    IF c.ret # 0 THEN c
    ELSE tcp_epoll_ctl(conn_event_do(c, idx, TAP_SYN_ACK_SENT), idx)

\* tcp_conn_from_tap(): connect()
tcp_conn_from_tap_connect(c, idx, in, env) ==
    IF in.connect = "err" THEN tcp_rst_do(c, idx, env)
    ELSE IF in.connect = "inprogress" THEN tcp_epoll_ctl(c, idx)
    ELSE tcp_conn_from_tap_synack(tcp_send_flag(c, idx, {"SYN", "ACK"}, env), idx)

\* tcp_conn_from_tap(): bind()
tcp_conn_from_tap_bind(c, idx, in, env) ==
    IF in.bind = "ok" THEN tcp_rst_do(c, idx, env)
    ELSE tcp_conn_from_tap_connect(IF in.bind = "local"
                                   THEN conn_flag_do(c, idx, LOCAL_FLAG)
                                   ELSE c,
                                   idx, in, env)

\* tcp_conn_from_tap(), once flow_alloc() returned flow c.ret;
\* fd_alloc(c.fds) is what tcp_conn_sock() returns
tcp_conn_from_tap_flow(c, daddr, srcport, dstport, in, env) ==
    IF c.ret = NULL THEN c
    ELSE IF ~in.valid THEN tcp_cancel(c, c.ret)
    ELSE IF fd_alloc(c.fds) = -1 THEN tcp_cancel(c, c.ret)
    ELSE tcp_conn_from_tap_bind(
             tcp_conn_hash_insert(
                 conn_event_do(
                     tcp_conn_start([c EXCEPT !.fds = @ \cup {fd_alloc(c.fds)}],
                                    c.ret, fd_alloc(c.fds)),
                     c.ret, TAP_SYN_RCVD),
                 c.ret, daddr, srcport, dstport),
             c.ret, in, env)

tcp_conn_from_tap(c, daddr, srcport, dstport, in, env) ==
    tcp_conn_from_tap_flow(flow_alloc_ctx(c), daddr, srcport, dstport, in, env)

\* Source address translation of inbound connections (IPv4)
tcp_snat_inbound(addr) ==
    IF addr = "loopback" \/ addr = "0.0.0.0" \/ addr = "addr_seen"
    THEN "gw"
    ELSE addr

tcp_tap_conn_from_sock(c, dstport, idx, s, saddr, sport, env) ==
    conn_flag_do(
        tcp_send_flag(
            tcp_conn_hash_insert(
                conn_event_do(tcp_conn_start(c, idx, s), idx, SOCK_ACCEPTED),
                idx, tcp_snat_inbound(saddr), dstport, sport),
            idx, {"SYN"}, env),
        idx, ACK_FROM_TAP_DUE)

\* tcp_listen_handler(), once flow_alloc() returned flow c.ret;
\* fd_alloc(c.fds) is what accept4() returns
tcp_listen_handler_flow(c, port, saddr, sport, in, env) ==
    IF c.ret = NULL THEN c
    ELSE IF fd_alloc(c.fds) = -1 THEN tcp_cancel(c, c.ret)
    ELSE IF ~in.valid
    THEN tcp_cancel([c EXCEPT !.fds = @ \cup {fd_alloc(c.fds)}], c.ret)
    ELSE tcp_tap_conn_from_sock([c EXCEPT !.fds = @ \cup {fd_alloc(c.fds)}],
                                port, c.ret, fd_alloc(c.fds), saddr, sport, env)

\* The connection is not spliced (tcp_splice_conn_from_sock() returns false)
tcp_listen_handler(c, port, saddr, sport, in, env) ==
    tcp_listen_handler_flow(flow_alloc_ctx(c), port, saddr, sport, in, env)

(***************************************************************************)
(* Segments from the tap.  p: the batch of segments of one flow            *)
(*   th       flags of the first segment, more: others follow in the batch *)
(*   tapack   what its acknowledgement number does: "all", "some", "old"   *)
(*   finacked conn->seq_ack_from_tap == conn->seq_to_tap afterwards        *)
(*   pre      tcp_data_from_tap(): "bad" (a malformed segment), "rst" (a   *)
(*            segment with RST), "ok"                                      *)
(*   ack, fin a segment of the batch has ACK, FIN; retr: the last ACK is a *)
(*            duplicate; keep: a segment beyond seq_from_tap is left;      *)
(*            dupnew: no duplicate ACK was sent for this sequence yet      *)
(*   send     sendmsg(): "full" (all there was to send, if anything),      *)
(*            "partial", "epipe", "eagain", "err"                          *)
(***************************************************************************)
\* out: the FIN of the batch, or an acknowledgement
tcp_data_from_tap_fin(c, idx, p, env, partial_send) ==
    IF p.fin /\ ~partial_send
    THEN SetRet(conn_event_do(c, idx, TAP_FIN_RCVD), 1)
    ELSE SetRet(tcp_send_flag(c, idx, ACK_IF_NEEDED, env), 1)

\* out: of tcp_data_from_tap()
tcp_data_from_tap_out(c, idx, p, env, partial_send) ==
    IF p.keep
    THEN SetRet(IF p.dupnew
                THEN tcp_send_flag(c, idx, {"ACK", "DUP_ACK"}, env)
                ELSE c,
                1)
    ELSE tcp_data_from_tap_fin(
             IF /\ p.ack
                /\ c.tab[idx].events \cap TAP_FIN_SENT # {}
                /\ p.finacked
             THEN conn_event_do(c, idx, TAP_FIN_ACKED)
             ELSE c,
             idx, p, env, partial_send)

\* tcp_data_from_tap(): sendmsg() to the socket
tcp_data_from_tap_send(c, idx, p, env) ==
    CASE p.send = "epipe" -> SetRet(tcp_send_flag(c, idx, {"ACK"}, env), -1)
      [] p.send = "eagain" -> SetRet(tcp_send_flag(c, idx, ACK_IF_NEEDED, env), 1)
      [] p.send = "err" -> SetRet(c, -1)
      [] p.send = "partial" ->
           tcp_data_from_tap_out(tcp_send_flag(c, idx, ACK_IF_NEEDED, env),
                                 idx, p, env, TRUE)
      [] OTHER -> tcp_data_from_tap_out(c, idx, p, env, FALSE)

\* tcp_data_from_tap(): fast retransmit on a duplicate ACK
tcp_data_from_tap_retr(c, idx, p, env) ==
    IF p.retr THEN tcp_data_from_sock(c, idx, env) ELSE c

\* tcp_data_from_tap(): ret is -1 or the number of segments consumed
\* (1 stands for any number)
tcp_data_from_tap(c, idx, p, env) ==
    IF c.tab[idx].events = CLOSED THEN SetRet(c, 1)
    ELSE IF c.tab[idx].events \cap ESTABLISHED = {}
    THEN SetRet([c EXCEPT !.abort = TRUE], 1)
    ELSE IF p.pre = "bad" THEN SetRet(c, -1)
    ELSE IF p.pre = "rst" THEN SetRet(conn_event_do(c, idx, CLOSED), 1)
    ELSE tcp_data_from_tap_send(
             tcp_data_from_tap_retr(
                 IF p.ack THEN tcp_update_seqack_from_tap(c, idx, p.tapack)
                 ELSE c,
                 idx, p, env),
             idx, p, env)

tcp_conn_from_sock_finish(c, idx, env) ==
    tcp_send_flag(tcp_data_from_sock(conn_event_do(c, idx, ESTABLISHED), idx, env),
                  idx, {"ACK"}, env)

\* tcp_tap_handler(), data accepted: the FIN and the acknowledgement due
tcp_tap_handler_fin(c, idx, env) ==
    IF /\ c.tab[idx].events \cap TAP_FIN_RCVD # {}
       /\ c.tab[idx].events \cap SOCK_FIN_SENT = {}
    THEN tcp_send_flag(conn_event_do(c, idx, SOCK_FIN_SENT), idx, {"ACK"}, env)
    ELSE IF ~env.acked THEN conn_flag_do(c, idx, ACK_TO_TAP_DUE)
    ELSE c

\* tcp_tap_handler(), once tcp_data_from_tap() returned
tcp_tap_handler_count(c, idx, env) ==
    IF c.ret = -1 THEN tcp_rst_do(c, idx, env)
    ELSE tcp_tap_handler_fin(conn_flag_do(c, idx, Not(STALLED)), idx, env)

\* Established connections accepting data from tap
tcp_tap_handler_data(c, idx, p, env) ==
    tcp_tap_handler_count(tcp_data_from_tap(c, idx, p, env), idx, env)

\* Established connections not accepting data from tap, once
\* tcp_update_seqack_from_tap() returned
tcp_tap_handler_closing(c, idx, p) ==
    IF c.tab[idx].events \cap SOCK_FIN_RCVD # {} /\ p.finacked
    THEN conn_event_do(c, idx, CLOSED)
    ELSE c

\* Established connections not accepting data from tap, or accepting it
tcp_tap_handler_established(c, idx, p, env) ==
    IF c.tab[idx].events \cap TAP_FIN_RCVD # {}
    THEN tcp_tap_handler_closing(tcp_update_seqack_from_tap(c, idx, p.tapack),
                                 idx, p)
    ELSE tcp_tap_handler_data(c, idx, p, env)

\* Established connections, from the handshake: the rest of the batch
tcp_tap_handler_more(c, idx, p, env) ==
    IF ~p.more THEN c ELSE tcp_tap_handler_established(c, idx, p, env)

\* New connection from tap, once ESTABLISHED is set
tcp_tap_handler_syn_rcvd(c, idx, p, env) ==
    IF "FIN" \in p.th
    THEN conn_event_do(tcp_send_flag(c, idx, {"ACK"}, env), idx, SOCK_FIN_SENT)
    ELSE IF "ACK" \notin p.th THEN tcp_rst_do(c, idx, env)
    ELSE tcp_tap_handler_more(tcp_data_from_sock(c, idx, env), idx, p, env)

\* tcp_tap_handler() by the state of the connection
tcp_tap_handler_state(c, idx, p, env) ==
    IF c.tab[idx].events \cap SOCK_ACCEPTED # {}
    THEN IF {"SYN", "ACK"} \subseteq p.th /\ "FIN" \notin p.th
         THEN tcp_conn_from_sock_finish(c, idx, env)
         ELSE tcp_rst_do(c, idx, env)
    ELSE IF c.tab[idx].events \cap TAP_SYN_RCVD # {}
    THEN IF c.tab[idx].events \cap TAP_SYN_ACK_SENT = {}
         THEN tcp_rst_do(c, idx, env)
         ELSE tcp_tap_handler_syn_rcvd(conn_event_do(c, idx, ESTABLISHED),
                                       idx, p, env)
    ELSE tcp_tap_handler_established(c, idx, p, env)

\* tcp_tap_handler(), conn: what tcp_hash_lookup() returns
tcp_tap_handler_conn(c, conn, daddr, source, dest, p, in, env) ==
    IF conn = NULL
    THEN IF "SYN" \in p.th /\ "ACK" \notin p.th
         THEN tcp_conn_from_tap(c, daddr, source, dest, in, env)
         ELSE c
    ELSE IF "RST" \in p.th THEN conn_event_do(c, conn, CLOSED)
    ELSE tcp_tap_handler_state(
             IF "ACK" \in p.th /\ c.tab[conn].events \cap ESTABLISHED = {}
             THEN tcp_update_seqack_from_tap(c, conn, p.tapack)
             ELSE c,
             conn, p, env)

tcp_tap_handler(c, daddr, source, dest, p, in, env) ==
    tcp_tap_handler_conn(c, tcp_hash_lookup(c.hash, c.tab, daddr, source, dest),
                         daddr, source, dest, p, in, env)

(***************************************************************************)
(* Socket and timer events                                                 *)
(***************************************************************************)
\* tcp_connect_finish(), once tcp_send_flag(SYN | ACK) returned
tcp_connect_finish_synack(c, idx) ==
    IF c.ret # 0 THEN c
    ELSE conn_flag_do(conn_event_do(c, idx, TAP_SYN_ACK_SENT), idx,
                      ACK_FROM_TAP_DUE)

\* so_err: getsockopt(SO_ERROR) fails or reports an error
tcp_connect_finish(c, idx, so_err, env) ==
    IF so_err THEN tcp_rst_do(c, idx, env)
    ELSE tcp_connect_finish_synack(tcp_send_flag(c, idx, {"SYN", "ACK"}, env), idx)

\* if (CONN_HAS(conn, SOCK_FIN_SENT | TAP_FIN_ACKED)) conn_event(CLOSED)
tcp_sock_handler_fin_acked(c, idx) ==
    IF CONN_HAS(c.tab[idx], SOCK_FIN_SENT \cup TAP_FIN_ACKED)
    THEN conn_event_do(c, idx, CLOSED)
    ELSE c

\* if (events & (EPOLLRDHUP | EPOLLHUP)) conn_event(SOCK_FIN_RCVD)
tcp_sock_handler_hup(c, idx, events) ==
    IF events \cap {"EPOLLRDHUP", "EPOLLHUP"} # {}
    THEN conn_event_do(c, idx, SOCK_FIN_RCVD)
    ELSE c

\* if (events & EPOLLIN) tcp_data_from_sock()
tcp_sock_handler_in(c, idx, events, env) ==
    IF "EPOLLIN" \in events THEN tcp_data_from_sock(c, idx, env) ELSE c

\* if (events & EPOLLOUT) tcp_update_seqack_wnd()
tcp_sock_handler_out(c, idx, events, env) ==
    IF "EPOLLOUT" \in events THEN tcp_update_seqack_wnd(c, idx, env) ELSE c

\* if (conn->events & ESTABLISHED) { ... return; }
tcp_sock_handler_established(c, idx, events, env) ==
    tcp_sock_handler_out(
        tcp_sock_handler_in(
            tcp_sock_handler_hup(tcp_sock_handler_fin_acked(c, idx), idx, events),
            idx, events, env),
        idx, events, env)

tcp_sock_handler(c, idx, events, so_err, env) ==
    IF c.tab[idx].type # FLOW_TCP THEN [c EXCEPT !.abort = TRUE]
    ELSE IF c.tab[idx].events = CLOSED THEN c
    ELSE IF "EPOLLERR" \in events THEN tcp_rst_do(c, idx, env)
    ELSE IF c.tab[idx].events \cap TAP_FIN_SENT # {} /\ "EPOLLHUP" \in events
    THEN conn_event_do(c, idx, CLOSED)
    ELSE IF c.tab[idx].events \cap ESTABLISHED # {}
    THEN tcp_sock_handler_established(c, idx, events, env)
    ELSE IF "EPOLLHUP" \in events THEN tcp_rst_do(c, idx, env)
    ELSE IF c.tab[idx].events \cap SOCK_ACCEPTED # {} THEN c
    ELSE IF c.tab[idx].events = TAP_SYN_RCVD /\ "EPOLLOUT" \in events
    THEN tcp_connect_finish(c, idx, so_err, env)
    ELSE c

\* t: [armed, maxretrans, act_old], what the handler finds
\*   armed      the timer was set again since this event was queued
\*   maxretrans conn->retrans == TCP_MAX_RETRANS
\*   act_old    old.it_value.tv_sec == ACT_TIMEOUT
tcp_timer_handler(c, idx, t, env) ==
    IF t.armed THEN c
    ELSE IF c.tab[idx].flags \cap ACK_TO_TAP_DUE # {}
    THEN tcp_timer_ctl(tcp_send_flag(c, idx, ACK_IF_NEEDED, env), idx)
    ELSE IF c.tab[idx].flags \cap ACK_FROM_TAP_DUE # {}
    THEN IF c.tab[idx].events \cap ESTABLISHED = {} THEN tcp_rst_do(c, idx, env)
         ELSE IF CONN_HAS(c.tab[idx], SOCK_FIN_SENT \cup TAP_FIN_ACKED)
         THEN tcp_rst_do(c, idx, env)
         ELSE IF t.maxretrans THEN tcp_rst_do(c, idx, env)
         ELSE tcp_timer_ctl(tcp_data_from_sock(c, idx, env), idx)
    ELSE IF t.act_old THEN tcp_rst_do(c, idx, env)
    ELSE c

\* flow_init(), tcp_init(), no descriptor open
InitTables ==
    /\ flowtab = flow_init
    /\ flow_first_free = 0
    /\ epoll = [fd \in Fds |-> NoReg]
    /\ tc_hash = tcp_init
    /\ open_fds = {}
    /\ was_closed = {}
    /\ aborted = FALSE
    /\ op = [name |-> "init", idx |-> NULL]

InitTcpIdle ==
    /\ InitTables
    /\ hash_secret = [k \in Keys |-> 0]

(***************************************************************************)
(* Frames queued for the tap: tcp4_l2_flags_buf (segments without data),   *)
(* tcp4_l2_buf (segments with data), and the writes that flush them        *)
(* (tcp.c, tap.c). One connection, one address family.                     *)
(***************************************************************************)
\* Slots of tcp4_l2_buf[] and of tcp4_l2_flags_buf[] (128 in the program)
TCP_FRAMES_MEM == 3

\* Largest payload of one frame (MSS_GET(conn))
MSS == 2

\* Bytes of a frame before the payload (tap, Ethernet, IP and TCP headers)
L2Hdr == 1

\* Frames queued in one run of the model
MaxQueued == 4

\* Width of a sequence number (uint32_t: 32 in the program)
SeqBits == 6

\* Sequence numbers wrap at 2^SeqBits
SeqMod == 2 ^ SeqBits

MODE_PASST == "MODE_PASST"
MODE_PASTA == "MODE_PASTA"

\* TCP_FRAMES: frames read from the socket at once
TCP_FRAMES(mode) == IF mode = MODE_PASST THEN TCP_FRAMES_MEM ELSE 1

DIV_ROUND_UP(n, d) == (n + d - 1) \div d

\* iov_len of a queued frame
FrameLen(f) == L2Hdr + f.len

RECURSIVE iov_size(_, _)
iov_size(iov, n) == IF n = 0 THEN 0 ELSE iov_size(iov, n - 1) + FrameLen(iov[n])

\* iov_skip_bytes(): the first buffer that is not entirely within the first
\* 'skip' bytes, and the offset of byte 'skip' in it
RECURSIVE iov_skip_bytes(_, _, _)
iov_skip_bytes(iov, i, skip) ==
    IF i < Len(iov) /\ skip >= FrameLen(iov[i + 1])
    THEN iov_skip_bytes(iov, i + 1, skip - FrameLen(iov[i + 1]))
    ELSE [i |-> i, offset |-> skip]

\* writev() outcomes of one frame on the tuntap device; any other errno ends
\* the process (die())
Writevs == {"ok", "short", "EAGAIN"}

\* tap_send_frames_pasta(): one writev() per frame; rc[i] is the outcome of the
\* i-th. The 'break' of the errno cases leaves the switch, the 'break' of the
\* short write leaves the loop.
RECURSIVE tap_send_frames_pasta_from(_, _, _, _)
tap_send_frames_pasta_from(fd_tap, iov, rc, i) ==
    IF i >= Len(iov) THEN [m |-> i, fd_tap |-> fd_tap]
    ELSE IF rc[i + 1] = "EAGAIN"
         THEN tap_send_frames_pasta_from(fd_tap, iov, rc, i + 1)
    ELSE IF rc[i + 1] = "short" THEN [m |-> i, fd_tap |-> fd_tap]
    ELSE tap_send_frames_pasta_from(Append(fd_tap, iov[i + 1]), iov, rc, i + 1)

tap_send_frames_pasta(fd_tap, iov, rc) ==
    tap_send_frames_pasta_from(fd_tap, iov, rc, 0)

\* tap_send_frames_passt(): one sendmsg() for the batch, which sends 'sent'
\* bytes or fails (-1); the rest of a frame cut short is written by
\* write_remainder(), which succeeds (rem) or not
tap_send_frames_passt_rest(fd_tap, iov, s, rem) ==
    IF s.i < Len(iov) /\ s.offset > 0
    THEN IF rem
         THEN [m |-> s.i + 1, fd_tap |-> fd_tap \o SubSeq(iov, 1, s.i + 1)]
         ELSE [m |-> s.i, fd_tap |-> fd_tap \o SubSeq(iov, 1, s.i)]
    ELSE [m |-> s.i, fd_tap |-> fd_tap \o SubSeq(iov, 1, s.i)]

tap_send_frames_passt(fd_tap, iov, sent, rem) ==
    IF sent < 0 THEN [m |-> 0, fd_tap |-> fd_tap]
    ELSE tap_send_frames_passt_rest(fd_tap, iov, iov_skip_bytes(iov, 0, sent), rem)

\* tap_send_frames(): w holds what the system calls of this flush do
tap_send_frames(mode, fd_tap, iov, w) ==
    IF Len(iov) = 0 THEN [m |-> 0, fd_tap |-> fd_tap]
    ELSE IF mode = MODE_PASST
         THEN tap_send_frames_passt(fd_tap, iov, w.sent, w.rem)
    ELSE tap_send_frames_pasta(fd_tap, iov, w.rc)

\* for (i = 0; i < m; i++) *seq_update[i].seq += seq_update[i].len
RECURSIVE tcp_l2_buf_seq_update(_, _, _)
tcp_l2_buf_seq_update(seq, buf, m) ==
    IF m = 0 THEN seq
    ELSE (tcp_l2_buf_seq_update(seq, buf, m - 1) + buf[m].len) % SeqMod

tcp_l2_data_buf_flush_sent(t, r) ==
    [t EXCEPT !.fd_tap = r.fd_tap,
              !.seq_to_tap = tcp_l2_buf_seq_update(@, t.l2_buf, r.m),
              !.l2_buf = <<>>]

tcp_l2_data_buf_flush(t, w) ==
    tcp_l2_data_buf_flush_sent(t, tap_send_frames(t.mode, t.fd_tap, t.l2_buf, w))

tcp_l2_flags_buf_flush_sent(t, r) ==
    [t EXCEPT !.fd_tap = r.fd_tap, !.l2_flags_buf = <<>>]

tcp_l2_flags_buf_flush(t, w) ==
    tcp_l2_flags_buf_flush_sent(t, tap_send_frames(t.mode, t.fd_tap, t.l2_flags_buf, w))

tcp_defer_handler(t, wf, wd) ==
    tcp_l2_data_buf_flush(tcp_l2_flags_buf_flush(t, wf), wd)

\* A frame as it is queued: its sequence number, its payload length, and its
\* place in the order of the enqueue operations
Frame(t, kind, seq, len) ==
    [kind |-> kind, seq |-> seq, len |-> len, n |-> t.queued + 1]

tcp_data_to_tap_full(t, w) ==
    IF Len(t.l2_buf) > TCP_FRAMES_MEM - 1 THEN tcp_l2_data_buf_flush(t, w) ELSE t

tcp_data_to_tap(t, plen, seq, w) ==
    tcp_data_to_tap_full(
        [t EXCEPT !.l2_buf = Append(@, Frame(t, "data", seq, plen)),
                  !.queued = @ + 1], w)

\* tcp_data_from_sock(), from the recvmsg() that peeked sendlen new bytes on:
\* send_bufs frames, the last one of last_len bytes
RECURSIVE tcp_data_from_sock_loop(_, _, _, _, _, _)
tcp_data_from_sock_loop(t, i, send_bufs, last_len, seq, w) ==
    IF i >= send_bufs THEN t
    ELSE tcp_data_from_sock_loop(
             tcp_data_to_tap(t, IF i = send_bufs - 1 THEN last_len ELSE MSS, seq, w),
             i + 1, send_bufs, last_len,
             (seq + (IF i = send_bufs - 1 THEN last_len ELSE MSS)) % SeqMod, w)

tcp_data_from_sock_room(t, fill_bufs, w) ==
    IF Len(t.l2_buf) + fill_bufs > TCP_FRAMES_MEM THEN tcp_l2_data_buf_flush(t, w) ELSE t

tcp_data_from_sock_queue(t, fill_bufs, sendlen, w0, w) ==
    tcp_data_from_sock_loop(tcp_data_from_sock_room(t, fill_bufs, w0), 0,
                            DIV_ROUND_UP(sendlen, MSS),
                            sendlen - (DIV_ROUND_UP(sendlen, MSS) - 1) * MSS,
                            t.seq_to_tap, w)

\* tcp_send_flag(), from the filling of the headers on: the frame carries
\* seq_to_tap, SYN and FIN take one sequence number, DUP_ACK queues the
\* frame twice
tcp_send_flag_full(t, w) ==
    IF Len(t.l2_flags_buf) > TCP_FRAMES_MEM - 2 THEN tcp_l2_flags_buf_flush(t, w) ELSE t

tcp_send_flag_dup(t, flags) ==
    IF "DUP_ACK" \in flags
    THEN [t EXCEPT !.l2_flags_buf = Append(@, @[Len(@)])]
    ELSE t

tcp_send_flag_buf(t, flags) ==
    tcp_send_flag_dup(
        [t EXCEPT !.l2_flags_buf = Append(@, Frame(t, "flags", t.seq_to_tap, 0)),
                  !.queued = @ + 1,
                  !.seq_to_tap = IF flags \cap {"FIN", "SYN"} # {}
                                 THEN (@ + 1) % SeqMod ELSE @,
                  !.base = IF flags \cap {"FIN", "SYN"} # {}
                           THEN (@ + 1) % SeqMod ELSE @],
        flags)

tcp_send_flag_queue(t, flags, w) ==
    tcp_send_flag_full(tcp_send_flag_buf(t, flags), w)

\* Nothing queued, nothing written; base is the initial sequence number plus
\* the sequence numbers taken by the SYN and FIN segments queued since
TapStart(mode, seq) ==
    [mode |-> mode, seq_to_tap |-> seq, base |-> seq, l2_buf |-> <<>>,
     l2_flags_buf |-> <<>>, fd_tap |-> <<>>, queued |-> 0]

TapInit == tap = TapStart(MODE_PASST, 0)

(***************************************************************************)
(* Comparison of sequence numbers (tcp.c)                                  *)
(***************************************************************************)
\* log2 of MAX_WINDOW (16 + MAX_WS: 24 in the program)
WindowBits == 4

MAX_WINDOW == 2 ^ WindowBits

\* uint32_t subtraction, then comparison with MAX_WINDOW
SEQ_LE(a, b) == ((b - a) % SeqMod) < MAX_WINDOW

SEQ_LT_no_minus_one(a, b) == ((b - a) % SeqMod) < MAX_WINDOW
SEQ_LT(a, b) == ((b - a - 1) % SeqMod) < MAX_WINDOW

SEQ_GE(a, b) == ((a - b) % SeqMod) < MAX_WINDOW

SEQ_GT(a, b) == ((a - b - 1) % SeqMod) < MAX_WINDOW

\* Two sequence numbers a, b: the low SeqBits bits of the stream positions
\* A and A + d
SeqPair(A, d) ==
    [A |-> A, d |-> d, a |-> A % SeqMod, b |-> (A + d) % SeqMod, done |-> FALSE,
     lt |-> FALSE, le |-> FALSE, ge |-> FALSE, gt |-> FALSE]

CmpInit == cmp = SeqPair(0, 0)

(***************************************************************************)
(* Sequence numbers towards the tap of one established connection:         *)
(* seq_to_tap, seq_ack_from_tap and the retransmission counter, as the     *)
(* handlers of tcp.c change them                                           *)
(***************************************************************************)
\* Expiries of the ACK timer in a row before the connection is reset
\* (TCP_MAX_RETRANS, tcp_conn.h: 7 in the program)
TCP_MAX_RETRANS == 2

\* conn_flag(c, conn, flag), conn_flag(c, conn, ~flag) and conn_event() on the
\* fields of the connection alone
seq_flag(s, flag) == [s EXCEPT !.flags = @ \cup flag]

seq_unflag(s, flag) == [s EXCEPT !.flags = @ \ flag]

seq_event(s, event) == [s EXCEPT !.events = conn_event_set(@, event)]

\* tcp_update_seqack_from_tap()
tcp_update_seqack_from_tap_any(s, seq) ==
    [(IF SEQ_LT(seq, s.seq_to_tap) THEN seq_flag(s, ACK_FROM_TAP_DUE) ELSE s)
       EXCEPT !.retrans = 0,
              !.seq_ack_from_tap = seq,
              !.moved = (seq - s.seq_ack_from_tap) % SeqMod,
              !.resent = 0]
tcp_update_seqack_from_tap_gt(s, seq) ==
    IF SEQ_GT(seq, s.seq_ack_from_tap)
    THEN [(IF SEQ_LT(seq, s.seq_to_tap) THEN seq_flag(s, ACK_FROM_TAP_DUE) ELSE s)
            EXCEPT !.retrans = 0,
                   !.seq_ack_from_tap = seq,
                   !.moved = (seq - s.seq_ack_from_tap) % SeqMod,
                   !.resent = 0]
    ELSE s

tcp_update_seqack_from_tap_seq(s, seq) ==
    tcp_update_seqack_from_tap_gt(
        IF seq = s.seq_to_tap THEN seq_unflag(s, ACK_FROM_TAP_DUE) ELSE s, seq)

\* tcp_sock_consume(): 0, or the error of recv() when there is something to
\* discard and recv() fails
tcp_sock_consume(s, ack_seq, recv_ok) ==
    IF SEQ_LE(ack_seq, s.seq_ack_from_tap) THEN 0
    ELSE IF recv_ok THEN 0 ELSE -1

\* tcp_send_flag() as far as these fields go. With no flag to send it may have
\* nothing to do (e.noop); getsockopt(TCP_INFO) fails (~e.tinfo_ok) and the
\* connection is closed; or the segment is queued: its ACK leaves
\* ACK_TO_TAP_DUE clear (e.acked) or set, FIN takes a sequence number and wants
\* an ACK. ret: the return value.
tcp_send_flag_seq(s, flags, e) ==
    IF flags = {} /\ e.noop THEN [s EXCEPT !.ret = 0]
    ELSE IF ~e.tinfo_ok THEN [seq_event(s, CLOSED) EXCEPT !.ret = -1]
    ELSE [s EXCEPT !.ret = 0,
                   !.rst = @ \/ "RST" \in flags,
                   !.flags = ((IF "RST" \in flags THEN @
                               ELSE IF e.acked THEN @ \ ACK_TO_TAP_DUE
                               ELSE @ \cup ACK_TO_TAP_DUE)
                              \cup (IF "FIN" \in flags THEN ACK_FROM_TAP_DUE ELSE {})),
                   !.seq_to_tap = IF "FIN" \in flags THEN (@ + 1) % SeqMod ELSE @]

tcp_rst_seq_sent(s) == IF s.ret = 0 THEN seq_event(s, CLOSED) ELSE s

\* tcp_rst_do()
tcp_rst_seq(s, e) ==
    IF s.events = CLOSED THEN s
    ELSE tcp_rst_seq_sent(tcp_send_flag_seq(s, {"RST"}, e))

\* tcp_data_from_sock(), and the flush of the frames it queues: d.wnd is
\* whether the window of the guest has room, d.recv what recvmsg() does,
\* d.sendlen the new bytes it peeks, d.flushed the bytes of the frames that
\* tcp_l2_data_buf_flush() then writes
tcp_data_from_sock_fin_sent(s, e) ==
    IF s.ret # 0 THEN tcp_rst_seq(s, e) ELSE seq_event(s, TAP_FIN_SENT)

tcp_data_from_sock_recv(s, d) ==
    IF ~d.wnd THEN seq_flag(seq_flag(s, STALLED), ACK_FROM_TAP_DUE)
    ELSE IF d.recv = "err" THEN tcp_rst_seq(s, d.e)
    ELSE IF d.recv = "eagain" THEN s
    ELSE IF d.recv = "eof"
         THEN IF s.events \cap (SOCK_FIN_RCVD \cup TAP_FIN_SENT) = SOCK_FIN_RCVD
              THEN tcp_data_from_sock_fin_sent(
                       tcp_send_flag_seq(s, {"FIN", "ACK"}, d.e), d.e)
              ELSE s
    ELSE IF d.sendlen <= 0 THEN seq_flag(s, STALLED)
    ELSE [seq_flag(seq_unflag(s, STALLED), ACK_FROM_TAP_DUE)
            EXCEPT !.seq_to_tap = (@ + d.flushed) % SeqMod]

tcp_data_from_sock_seq(s, d) ==
    tcp_data_from_sock_recv(
        IF SEQ_LT((s.seq_to_tap - s.seq_ack_from_tap) % SeqMod, 0)
        THEN [s EXCEPT !.seq_to_tap = s.seq_ack_from_tap]
        ELSE s, d)

\* tcp_data_from_tap(), the loop over the segments of the batch: the highest
\* acknowledgement among them (max_ack_seq), and whether it is repeated (retr)
RECURSIVE tcp_data_from_tap_max_ack(_, _, _, _)
tcp_data_from_tap_max_ack(s, segs, i, r) ==
    IF i > Len(segs) THEN r
    ELSE tcp_data_from_tap_max_ack(s, segs, i + 1,
             IF /\ segs[i].ack
                /\ SEQ_GE(segs[i].ack_seq, s.seq_ack_from_tap)
                /\ SEQ_GE(segs[i].ack_seq, r.max_ack_seq)
             THEN [ack |-> TRUE, max_ack_seq |-> segs[i].ack_seq,
                   retr |-> segs[i].len = 0 /\ ~segs[i].fin
                            /\ segs[i].ack_seq = r.max_ack_seq
                            /\ segs[i].wnd_same]
             ELSE [r EXCEPT !.ack = @ \/ segs[i].ack])

\* tcp_data_from_tap() after the loop: acknowledgement, fast re-transmit, data
\* to the socket (d.send: sent, EAGAIN, or an error), TAP_FIN_ACKED,
\* TAP_FIN_RCVD. ret: the return value (-1, or a count of segments).
tcp_data_from_tap_fin_seq(s, fin, e) ==
    IF fin THEN [seq_event(s, TAP_FIN_RCVD) EXCEPT !.ret = 1]
    ELSE [tcp_send_flag_seq(s, ACK_IF_NEEDED, e) EXCEPT !.ret = 1]

tcp_data_from_tap_out_seq(s, r, fin, d) ==
    IF d.send = "err" THEN [s EXCEPT !.ret = -1]
    ELSE IF d.send = "eagain"
         THEN [tcp_send_flag_seq(s, ACK_IF_NEEDED, d.e) EXCEPT !.ret = 1]
    ELSE tcp_data_from_tap_fin_seq(
             IF r.ack /\ TAP_FIN_SENT \subseteq s.events
                /\ s.seq_ack_from_tap = s.seq_to_tap
             THEN seq_event(s, TAP_FIN_ACKED) ELSE s, fin, d.e)

tcp_data_from_tap_retr_seq(s, r, d) ==
    IF r.retr
    THEN tcp_data_from_sock_seq([s EXCEPT !.seq_to_tap = r.max_ack_seq], d)
    ELSE s

tcp_data_from_tap_ack(s, r, recv_ok) ==
    IF r.ack /\ tcp_sock_consume(s, r.max_ack_seq, recv_ok) = 0
    THEN tcp_update_seqack_from_tap_seq(s, r.max_ack_seq)
    ELSE s

tcp_data_from_tap_acked(s, r, fin, d) ==
    tcp_data_from_tap_out_seq(
        tcp_data_from_tap_retr_seq(tcp_data_from_tap_ack(s, r, d.consumed), r, d),
        r, fin, d)

tcp_data_from_tap_seq(s, segs, d) ==
    IF s.events = CLOSED THEN [s EXCEPT !.ret = 1]
    ELSE IF \E i \in 1..Len(segs) : segs[i].rst
         THEN [seq_event(s, CLOSED) EXCEPT !.ret = 1]
    ELSE tcp_data_from_tap_acked(s,
             tcp_data_from_tap_max_ack(s, segs, 1,
                 [ack |-> FALSE, max_ack_seq |-> s.seq_ack_from_tap, retr |-> FALSE]),
             \E i \in 1..Len(segs) : segs[i].fin, d)

\* tcp_tap_handler() for a connection that is established: a batch of
\* segments of the guest. d.ack_due: seq_ack_to_tap != seq_from_tap after it
tcp_tap_handler_fin_seq(s, d) ==
    IF TAP_FIN_RCVD \subseteq s.events /\ ~(SOCK_FIN_SENT \subseteq s.events)
    THEN tcp_send_flag_seq(seq_event(s, SOCK_FIN_SENT), {"ACK"}, d.e)
    ELSE IF d.ack_due THEN seq_flag(s, ACK_TO_TAP_DUE) ELSE s

tcp_tap_handler_count_seq(s, d) ==
    IF s.ret = -1 THEN tcp_rst_seq(s, d.e)
    ELSE tcp_tap_handler_fin_seq(seq_unflag(s, STALLED), d)

tcp_tap_handler_closing_seq(s) ==
    IF SOCK_FIN_RCVD \subseteq s.events /\ s.seq_ack_from_tap = s.seq_to_tap
    THEN seq_event(s, CLOSED) ELSE s

tcp_tap_handler_seq(s, segs, d) ==
    IF segs[1].rst THEN seq_event(s, CLOSED)
    ELSE IF TAP_FIN_RCVD \subseteq s.events
         THEN tcp_tap_handler_closing_seq(
                  tcp_update_seqack_from_tap_seq(s, segs[1].ack_seq))
    ELSE tcp_tap_handler_count_seq(tcp_data_from_tap_seq(s, segs, d), d)

\* tcp_sock_handler() for a connection that is established
tcp_sock_handler_in_seq(s, events, d) ==
    IF "EPOLLIN" \in events THEN tcp_data_from_sock_seq(s, d) ELSE s

tcp_sock_handler_hup_seq(s, events, d) ==
    tcp_sock_handler_in_seq(
        IF events \cap {"EPOLLRDHUP", "EPOLLHUP"} # {}
        THEN seq_event(s, SOCK_FIN_RCVD) ELSE s, events, d)

tcp_sock_handler_seq(s, events, d) ==
    IF s.events = CLOSED THEN s
    ELSE IF "EPOLLERR" \in events THEN tcp_rst_seq(s, d.e)
    ELSE IF TAP_FIN_SENT \subseteq s.events /\ "EPOLLHUP" \in events
         THEN seq_event(s, CLOSED)
    ELSE tcp_sock_handler_hup_seq(
             IF CONN_HAS(s, SOCK_FIN_SENT \cup TAP_FIN_ACKED)
             THEN seq_event(s, CLOSED) ELSE s, events, d)

\* tcp_timer_handler(), ACK_FROM_TAP_DUE on an established connection without
\* FIN timeout: reset after TCP_MAX_RETRANS retries, or one more retry from
\* what the guest acknowledged
tcp_timer_handler_ack_timeout_unbounded(s, d) ==
    [tcp_data_from_sock_seq(
         [s EXCEPT !.retrans = @ + 1,
                   !.seq_to_tap = s.seq_ack_from_tap,
                   !.resent = @ + 1], d)
       EXCEPT !.last = "retry"]
tcp_timer_handler_ack_timeout(s, d) ==
    IF s.retrans = TCP_MAX_RETRANS
    THEN [tcp_rst_seq(s, d.e) EXCEPT !.last = "max_retrans"]
    ELSE [tcp_data_from_sock_seq(
              [s EXCEPT !.retrans = @ + 1,
                        !.seq_to_tap = s.seq_ack_from_tap,
                        !.resent = @ + 1], d)
            EXCEPT !.last = "retry"]

\* tcp_timer_handler(): armed is whether timerfd_gettime() finds the timer set
\* again, act_old whether old.it_value.tv_sec == ACT_TIMEOUT.
\* last: the branch taken.
tcp_timer_handler_seq(s, armed, act_old, d) ==
    IF armed THEN [s EXCEPT !.last = "discard"]
    ELSE IF ACK_TO_TAP_DUE \subseteq s.flags
         THEN [tcp_send_flag_seq(s, ACK_IF_NEEDED, d.e) EXCEPT !.last = "ack_to_tap"]
    ELSE IF ACK_FROM_TAP_DUE \subseteq s.flags
         THEN IF ~(ESTABLISHED \subseteq s.events)
              THEN [tcp_rst_seq(s, d.e) EXCEPT !.last = "handshake"]
              ELSE IF CONN_HAS(s, SOCK_FIN_SENT \cup TAP_FIN_ACKED)
              THEN [tcp_rst_seq(s, d.e) EXCEPT !.last = "fin_timeout"]
              ELSE tcp_timer_handler_ack_timeout(s, d)
    ELSE IF act_old THEN [tcp_rst_seq(s, d.e) EXCEPT !.last = "activity"]
    ELSE [s EXCEPT !.last = "timer_set"]

\* An established connection, everything sent to the guest acknowledged
SeqStart(seq) ==
    [events |-> ESTABLISHED, flags |-> {}, seq_to_tap |-> seq,
     seq_ack_from_tap |-> seq, retrans |-> 0, ret |-> 0, rst |-> FALSE,
     last |-> "start", moved |-> 0, resent |-> 0, steps |-> 0]

SeqsInit == seqs = SeqStart(0)

\* ---------------------------------------------------------------------
\* Port forwarding: conf_ports() fills the forward map, udp_init() inverts it
\* ---------------------------------------------------------------------

\* Width of in_port_t in the model (16 in the source)
PortBits == 2

NUM_PORTS == 2 ^ PortBits

Ports == 0 .. NUM_PORTS - 1

PORT_EPHEMERAL_MIN == 2 ^ (PortBits - 1) + 2 ^ (PortBits - 2)

\* Longest list of base ranges of one option
MaxChunks == 2

\* conversion of an int to in_port_t
in_port_t(x) == x % NUM_PORTS

\* parse_port_range(): 0 and the range, or -ERANGE
parse_port_range(first, last) ==
    IF last < first \/ last >= NUM_PORTS
    THEN [ret |-> -1, first |-> 0, last |-> 0]
    ELSE [ret |-> 0, first |-> first, last |-> last]

\* bitmap_set() of every port of a set
bitmap_set_all(map, ports) == map \cup ports

\* conf_ports(): the loop over the ports of one base range
conf_ports_range(f, exclude, orig_range, mapped_range, fail) ==
    IF fail \in (orig_range.first .. orig_range.last) \ exclude
    THEN [f EXCEPT !.phase = "died"]
    ELSE [f EXCEPT
            !.map = bitmap_set_all(@, (orig_range.first .. orig_range.last) \ exclude),
            !.delta = [i \in Ports |->
                         IF i \in (orig_range.first .. orig_range.last) \ exclude
                         THEN in_port_t(mapped_range.first - orig_range.first
                                        + NUM_PORTS)
                         ELSE @[i]]]

\* conf_ports(): one base range "<first>[-<last>][:<first>[-<last>]]"
conf_ports_chunk(f, exclude, ch, fail) ==
    IF parse_port_range(ch.of, ch.ol).ret # 0 THEN [f EXCEPT !.phase = "died"]
    ELSE IF ch.mapped /\ parse_port_range(ch.mf, ch.ml).ret # 0
    THEN [f EXCEPT !.phase = "died"]
    ELSE IF ch.mapped /\ ch.ml - ch.mf # ch.ol - ch.of
    THEN [f EXCEPT !.phase = "died"]
    ELSE conf_ports_range(f, exclude, parse_port_range(ch.of, ch.ol),
                          IF ch.mapped THEN parse_port_range(ch.mf, ch.ml)
                          ELSE parse_port_range(ch.of, ch.ol), fail)

RECURSIVE conf_ports_chunks(_, _, _, _)
\* conf_ports(): the base ranges of one option, in order
conf_ports_chunks(f, exclude, chunks, fail) ==
    IF chunks = <<>> \/ f.phase = "died" THEN f
    ELSE conf_ports_chunks(conf_ports_chunk(f, exclude, Head(chunks), fail),
                           exclude, Tail(chunks), fail)

\* conf_ports(): an option with excluded ranges only
conf_ports_exclude_only(f, exclude, fail) ==
    IF (0 .. PORT_EPHEMERAL_MIN - 1) \ exclude \subseteq {fail}
    THEN [f EXCEPT !.phase = "died"]
    ELSE [f EXCEPT !.map = bitmap_set_all(@, (0 .. PORT_EPHEMERAL_MIN - 1) \ exclude)]

\* conf_ports() of one option
conf_ports(f, opt) ==
    IF opt.kind = "none"
    THEN IF f.mode # "FWD_UNSET" THEN [f EXCEPT !.phase = "died"]
         ELSE [f EXCEPT !.mode = "FWD_NONE"]
    ELSE IF f.mode \in {"FWD_NONE", "FWD_AUTO", "FWD_ALL"}
    THEN [f EXCEPT !.phase = "died"]
    ELSE IF opt.chunks = <<>> /\ opt.exclude # {}
    THEN conf_ports_exclude_only([f EXCEPT !.mode = "FWD_SPEC"], opt.exclude, opt.fail)
    ELSE conf_ports_chunks([f EXCEPT !.mode = "FWD_SPEC"], opt.exclude, opt.chunks,
                           opt.fail)

RECURSIVE udp_invert_portmap_from(_, _)
\* udp_invert_portmap(): the loop, from port i on
udp_invert_portmap_from(f, i) ==
    IF i >= NUM_PORTS THEN f
    ELSE udp_invert_portmap_from(
             IF f.delta[i] # 0
             THEN [f EXCEPT !.rdelta[in_port_t(i + f.delta[i])] =
                                in_port_t(NUM_PORTS - f.delta[i])]
             ELSE f,
             i + 1)

\* udp_invert_portmap(): rdelta[i + delta[i]] = NUM_PORTS - delta[i] where
\* delta[i] is not zero
udp_invert_portmap(f) == udp_invert_portmap_from(f, 0)

\* the destination port of a datagram on the forward path
udp_fwd_dstport(f, dstport) == in_port_t(dstport + f.delta[dstport])

\* the source port of a datagram on the return path
udp_fwd_srcport(f, src) == in_port_t(src + f.rdelta[src])

FwdStart ==
    [phase |-> "conf", mode |-> "FWD_UNSET", map |-> {},
     delta |-> [p \in Ports |-> 0], rdelta |-> [p \in Ports |-> 0],
     port |-> -1, dst |-> -1, back |-> -1]

FwdInit == fwd = FwdStart

\* ---------------------------------------------------------------------
\* Descriptors: the FD_REF_MAX checks and the fd field of union epoll_ref
\* ---------------------------------------------------------------------

\* Width of the fd field of union epoll_ref in the model (24 in the source)
FD_REF_BITS == 2

FD_REF_MAX == 2 ^ FD_REF_BITS - 1

\* Descriptors the kernel may hand out: some fit the field, some do not
KernelFds == 0 .. 2 ^ (FD_REF_BITS + 1) - 1

\* Most descriptors held at a time
MaxOpen == 2

\* int32_t fd:FD_REF_BITS after the assignment of v: whether the field of a
\* typedef of int is signed is the implementation's choice
epoll_ref_fd(signed, v) ==
    IF signed
    THEN ((v + 2 ^ (FD_REF_BITS - 1)) % (2 ^ FD_REF_BITS)) - 2 ^ (FD_REF_BITS - 1)
    ELSE v % (2 ^ FD_REF_BITS)

\* the system call made, the descriptor it returned and what the caller sees
ref_call(r, sys, fd, ret) == [r EXCEPT !.sys = sys, !.got = fd, !.ret = ret]

ref_open(r, fd) == [r EXCEPT !.open = @ \cup {fd}]

ref_keep(r, table, fd) == [r EXCEPT !.kept = @ \cup {[table |-> table, fd |-> fd]}]

\* epoll_ctl(EPOLL_CTL_ADD) of fd with a reference whose fd field was set to val
ref_epoll_add(r, fd, type, val) ==
    [r EXCEPT !.regs = {g \in @ : g.fd # fd}
                 \cup {[fd |-> fd, type |-> type, val |-> val,
                        read |-> epoll_ref_fd(r.signed, val)]}]

\* sock_l4() for IPPROTO_TCP, given what socket() returns and which later
\* call fails
sock_l4(r, fd, fail) ==
    IF fd < 0 THEN ref_call(r, "socket", fd, "errno")
    ELSE IF fd > FD_REF_MAX THEN ref_call(r, "socket", fd, "EBADF")
    ELSE IF fail \in {"bind", "listen"} THEN ref_call(r, "socket", fd, "errno")
    ELSE IF fail = "epoll_ctl"
    THEN ref_open(ref_call(r, "socket", fd, "errno"), fd)
    ELSE ref_epoll_add(ref_open(ref_call(r, "socket", fd, "fd"), fd),
                       fd, "EPOLL_TYPE_TCP_LISTEN", fd)

\* tcp_sock_init_af(), once sock_l4() returned
tcp_sock_init_af_keep(r, auto) ==
    IF auto /\ r.ret = "fd" THEN ref_keep(r, "tcp_sock_init_ext", r.got) ELSE r

tcp_sock_init_af(r, fd, fail, auto) == tcp_sock_init_af_keep(sock_l4(r, fd, fail), auto)

\* tcp_conn_new_sock()
tcp_conn_new_sock(r, fd) ==
    IF fd > FD_REF_MAX THEN ref_call(r, "socket", fd, "EIO")
    ELSE IF fd < 0 THEN ref_call(r, "socket", fd, "errno")
    ELSE ref_open(ref_call(r, "socket", fd, "fd"), fd)

\* tcp_conn_from_tap(), once tcp_conn_sock() returned: the socket is kept by
\* the connection and registered by tcp_epoll_ctl()
tcp_conn_from_tap_sock(r) ==
    IF r.ret # "fd" THEN r
    ELSE ref_epoll_add(ref_keep(r, "tcp_tap_conn.sock", r.got),
                       r.got, "EPOLL_TYPE_TCP", r.got)

\* udp_splice_new()
udp_splice_new(r, fd, fail) ==
    IF fd > FD_REF_MAX THEN ref_call(r, "socket", fd, "EIO")
    ELSE IF fd < 0 THEN ref_call(r, "socket", fd, "errno")
    ELSE IF fail = "bind" THEN ref_call(r, "socket", fd, "errno")
    ELSE ref_epoll_add(
             ref_keep(ref_open(ref_call(r, "socket", fd, "fd"), fd),
                      "udp_splice_port.sock", fd),
             fd, "EPOLL_TYPE_UDP", fd)

\* tcp_timer_ctl() of a connection without a timer, whose socket is sock
tcp_timer_ctl_fd(r, sock, fd, fail) ==
    IF fd = -1 \/ fd > FD_REF_MAX THEN ref_call(r, "timerfd_create", fd, "void")
    ELSE IF fail = "epoll_ctl" THEN ref_call(r, "timerfd_create", fd, "void")
    ELSE ref_epoll_add(
             ref_keep(ref_open(ref_call(r, "timerfd_create", fd, "void"), fd),
                      "tcp_tap_conn.timer", fd),
             fd, "EPOLL_TYPE_TCP_TIMER", sock)

\* the handler of an event reads the fd field of the reference
ref_dispatch(r, g) == [r EXCEPT !.disp = [val |-> g.val, read |-> g.read]]

\* tcp_listen_handler(), given what accept4() returns
tcp_listen_handler_fd(r, g, s, valid) ==
    IF s < 0 THEN ref_call(ref_dispatch(r, g), "accept4", s, "void")
    ELSE IF ~valid THEN ref_open(ref_call(ref_dispatch(r, g), "accept4", s, "void"), s)
    ELSE ref_epoll_add(
             ref_keep(ref_open(ref_call(ref_dispatch(r, g), "accept4", s, "void"), s),
                      "tcp_tap_conn.sock", s),
             s, "EPOLL_TYPE_TCP", s)

\* udp_buf_sock_handler(): recvmmsg() on the fd field of the reference
udp_buf_sock_handler_fd(r, g) == ref_call(ref_dispatch(r, g), "recvmmsg", -1, "void")

\* tcp_flow_defer() of a closed connection with socket sock
tcp_flow_defer_fd(r, sock) ==
    [r EXCEPT !.open = @ \ ({sock} \cup {g.fd : g \in {h \in r.regs :
                                 h.type = "EPOLL_TYPE_TCP_TIMER" /\ h.val = sock}}),
              !.kept = {k \in @ : k.fd # sock
                           /\ ~\E h \in r.regs : h.type = "EPOLL_TYPE_TCP_TIMER"
                                   /\ h.val = sock /\ h.fd = k.fd},
              !.regs = {g \in @ : g.fd # sock
                           /\ ~(g.type = "EPOLL_TYPE_TCP_TIMER" /\ g.val = sock)},
              !.sys = "close", !.got = -1, !.ret = "void"]

RefStart(signed) ==
    [signed |-> signed, open |-> {}, regs |-> {}, kept |-> {},
     sys |-> "none", got |-> -1, ret |-> "none",
     disp |-> [val |-> -1, read |-> -1]]

RefInit == ref = RefStart(TRUE)

\* ---------------------------------------------------------------------
\* The stream from the guest in passt mode: frames with a length prefix
\* ---------------------------------------------------------------------

\* sizeof(uint32_t) in the model: bytes of the length prefix
LenBytes == 2

\* Values of one byte in the model: 0 .. ByteBase - 1
ByteBase == 4

\* sizeof(struct ethhdr) in the model: the protocol field only
EthHdrLen == 1

\* ETH_MAX_MTU and TAP_BUF_FILL in the model
ETH_MAX_MTU == 2

TAP_BUF_FILL == 6

ETH_P_IP == 1

ETH_P_IPV6 == 2

ETH_P_ARP == 3

RECURSIVE ntohl(_)
\* ntohl() of the bytes of a length prefix
ntohl(b) ==
    IF b = <<>> THEN 0
    ELSE ntohl(SubSeq(b, 1, Len(b) - 1)) * ByteBase + b[Len(b)]

RECURSIVE htonl_bytes(_, _)
\* the k low bytes of x in network order
htonl_bytes(x, k) ==
    IF k = 0 THEN <<>> ELSE Append(htonl_bytes(x \div ByteBase, k - 1), x % ByteBase)

\* the bytes of a frame as the guest writes them
FrameBytes(f) == htonl_bytes(Len(f), LenBytes) \o f

RECURSIVE StreamBytes(_)
StreamBytes(frames) ==
    IF frames = <<>> THEN <<>> ELSE FrameBytes(Head(frames)) \o StreamBytes(Tail(frames))

SeqDrop(s, k) == SubSeq(s, k + 1, Len(s))

MinOf(a, b) == IF a < b THEN a ELSE b

\* the count recv() returns for a request of want bytes: what is there, cut
\* short by the next entry of the split, if any
recv_count(h, want) ==
    IF h.oracle = <<>> THEN MinOf(want, Len(h.wire))
    ELSE MinOf(Head(h.oracle), MinOf(want, Len(h.wire)))

\* recv() of k bytes to the end of the bytes in pkt_buf
recv_into(h, k) ==
    [h EXCEPT !.buf = @ \o SubSeq(h.wire, 1, k),
              !.wire = SeqDrop(@, k),
              !.oracle = IF @ = <<>> THEN @ ELSE Tail(@)]

\* packet_add() to pool_tap4 or pool_tap6 by eh->h_proto, then p += len
tap_handler_passt_add(h, len) ==
    [h EXCEPT
        !.pool4 = IF len >= EthHdrLen /\ len <= ETH_MAX_MTU
                     /\ h.buf[1] \in {ETH_P_ARP, ETH_P_IP}
                  THEN Append(@, SubSeq(h.buf, 1, len)) ELSE @,
        !.pool6 = IF len >= EthHdrLen /\ len <= ETH_MAX_MTU
                     /\ h.buf[1] = ETH_P_IPV6
                  THEN Append(@, SubSeq(h.buf, 1, len)) ELSE @,
        !.buf = SeqDrop(@, len)]

\* tap4_handler() and tap6_handler() on the pools
tap_handler_passt_pools(h) ==
    [h EXCEPT !.handed4 = @ \o h.pool4, !.handed6 = @ \o h.pool6,
              !.pool4 = <<>>, !.pool6 = <<>>, !.buf = <<>>]

\* tap_handler_passt(): return in the middle of the buffer
tap_handler_passt_return(h) ==
    [h EXCEPT !.pool4 = <<>>, !.pool6 = <<>>, !.buf = <<>>]

RECURSIVE tap_handler_passt_loop(_)
RECURSIVE tap_handler_passt_redo(_)

\* tap_handler_passt(): a frame of len bytes, once the blocking recv() for
\* its missing part returned
tap_handler_passt_rem(h, len) ==
    IF Len(h.buf) # len THEN tap_handler_passt_return(h)
    ELSE tap_handler_passt_loop(tap_handler_passt_add(h, len))

\* tap_handler_passt(): a frame of len bytes, once p is past its prefix
tap_handler_passt_len(h, len) ==
    IF len > Len(h.buf)
    THEN IF h.wire = <<>> THEN [h EXCEPT !.blocked = TRUE]
         ELSE tap_handler_passt_rem(
                  recv_into([h EXCEPT !.rem = TRUE], recv_count(h, len - Len(h.buf))),
                  len)
    ELSE tap_handler_passt_loop(tap_handler_passt_add(h, len))

\* tap_handler_passt(): after the loop
tap_handler_passt_done(h) ==
    IF h.rem THEN tap_handler_passt_redo(h) ELSE h

\* tap_handler_passt(): while (n > sizeof(uint32_t))
tap_handler_passt_loop(h) ==
    IF Len(h.buf) > LenBytes
    THEN tap_handler_passt_len([h EXCEPT !.buf = SeqDrop(@, LenBytes)],
                               ntohl(SubSeq(h.buf, 1, LenBytes)))
    ELSE tap_handler_passt_done(tap_handler_passt_pools(h))

\* tap_handler_passt(): from the label redo
tap_handler_passt_redo(h) ==
    IF h.wire = <<>> THEN h
    ELSE tap_handler_passt_loop(
             recv_into([h EXCEPT !.rem = FALSE], recv_count(h, TAP_BUF_FILL)))

\* tap_handler_passt()
tap_handler_passt(h, events) ==
    IF events \cap {"EPOLLRDHUP", "EPOLLHUP", "EPOLLERR"} # {}
    THEN [h EXCEPT !.reset = TRUE, !.wire = <<>>]
    ELSE tap_handler_passt_redo(h)

\* the state of the handler when it is called
StrmCall(s, oracle) ==
    [sent |-> s.sent, wire |-> s.wire, handed4 |-> s.handed4, handed6 |-> s.handed6,
     reset |-> s.reset, buf |-> <<>>, pool4 |-> <<>>, pool6 |-> <<>>, rem |-> FALSE,
     blocked |-> FALSE, oracle |-> oracle]

\* what is left of it when it returns
StrmRet(h) ==
    [sent |-> h.sent, wire |-> h.wire, handed4 |-> h.handed4, handed6 |-> h.handed6,
     reset |-> h.reset]

StrmStart ==
    [sent |-> <<>>, wire |-> <<>>, handed4 |-> <<>>, handed6 |-> <<>>, reset |-> FALSE]

StrmInit == strm = StrmStart

\* ---------------------------------------------------------------------
\* Source address translation of inbound connections
\* ---------------------------------------------------------------------

\* IPv4 addresses of the model: 0 is 0.0.0.0, 1 is in 127.0.0.0/8
MaxAddr4 == 3

Addr4 == 0 .. MaxAddr4

IN4_IS_ADDR_UNSPECIFIED(a) == a = 0

IN4_IS_ADDR_LOOPBACK(a) == a = 1

\* IPv6 addresses of the model: 0 is ::, 1 is ::1, 2 and 3 are in fe80::/10
MaxAddr6 == 4

Addr6 == 0 .. MaxAddr6

IN6_IS_ADDR_LOOPBACK(a) == a = 1

IN6_IS_ADDR_LINKLOCAL(a) == a \in {2, 3}

\* union inany_addr: an IPv4-mapped address or another IPv6 address
InanyAddrs == [v4 : {TRUE}, a : Addr4] \cup [v4 : {FALSE}, a : Addr6]

\* c->ip4 and c->ip6, as far as the translation reads them
SnatConfigs ==
    [addr_seen4 : Addr4, gw4 : Addr4,
     addr_seen6 : Addr6, addr6 : Addr6, gw6 : Addr6, addr_ll6 : Addr6]

\* tcp_snat_inbound() of an IPv6 address, choosing the replacement by the
\* address itself
tcp_snat_inbound6_by_addr(c, a) ==
    IF IN6_IS_ADDR_LOOPBACK(a) \/ a = c.addr_seen6 \/ a = c.addr6
    THEN IF IN6_IS_ADDR_LINKLOCAL(a) THEN c.gw6 ELSE c.addr_ll6
    ELSE a

\* tcp_snat_inbound() of an IPv6 address
tcp_snat_inbound6(c, a) ==
    IF IN6_IS_ADDR_LOOPBACK(a) \/ a = c.addr_seen6 \/ a = c.addr6
    THEN IF IN6_IS_ADDR_LINKLOCAL(c.gw6) THEN c.gw6 ELSE c.addr_ll6
    ELSE a

\* tcp_snat_inbound() of an IPv4 address
tcp_snat_inbound4(c, a) ==
    IF IN4_IS_ADDR_LOOPBACK(a) \/ IN4_IS_ADDR_UNSPECIFIED(a) \/ a = c.addr_seen4
    THEN c.gw4
    ELSE a

\* tcp_snat_inbound() with the configuration c
tcp_snat_inbound_inany(c, addr) ==
    IF addr.v4 THEN [addr EXCEPT !.a = tcp_snat_inbound4(c, addr.a)]
    ELSE [addr EXCEPT !.a = tcp_snat_inbound6(c, addr.a)]

SnatStart(c) ==
    [c |-> c, from |-> [v4 |-> TRUE, a |-> 0], faddr |-> [v4 |-> TRUE, a |-> 0],
     before |-> [v4 |-> TRUE, a |-> 0], times |-> 0]

SnatInit ==
    snat = SnatStart([addr_seen4 |-> 2, gw4 |-> 3, addr_seen6 |-> 4,
                      addr6 |-> 4, gw6 |-> 2, addr_ll6 |-> 3])

(***************************************************************************)
(* The window advertised to the guest by one established connection that   *)
(* is not closing: wnd_to_tap, seq_ack_to_tap, ACK_TO_TAP_DUE and the      *)
(* deadline of the timer (tcp.c, built with HAS_BYTES_ACKED and            *)
(* HAS_SND_WND; ws_to_tap is 0 and seq_init_from_tap is 0)                 *)
(***************************************************************************)
\* tcpi_snd_wnd is at most MaxSndWnd, SO_SNDBUF is 1..MaxSndBuf
MaxSndWnd == 2

MaxSndBuf == 3

\* WINDOW_DEFAULT < SNDBUF_SMALL < MAX_WINDOW as in the program
WINDOW_DEFAULT == 1

SNDBUF_SMALL == 2

\* Bytes the guest sends at most
MaxFromTap == 2

\* tcp_timer_ctl(): the timer exists, it is set to the deadline of the flags
tcp_timer_ctl_it(w) ==
    [w EXCEPT !.timer = IF w.flags \cap ACK_TO_TAP_DUE # {} THEN "ACK_INTERVAL"
                        ELSE IF w.flags \cap ACK_FROM_TAP_DUE # {} THEN "ACK_TIMEOUT"
                        ELSE "ACT_TIMEOUT"]

\* conn_flag_do() of a flag other than STALLED
conn_flag_do_it_timer(w, flag) ==
    IF \/ flag = ACK_FROM_TAP_DUE
       \/ flag = ACK_TO_TAP_DUE
       \/ flag = Not(ACK_FROM_TAP_DUE) /\ w.flags \cap ACK_TO_TAP_DUE # {}
       \/ flag = Not(ACK_TO_TAP_DUE) /\ w.flags \cap ACK_FROM_TAP_DUE # {}
    THEN tcp_timer_ctl_it(w)
    ELSE w

conn_flag_do_it(w, flag) ==
    IF Cardinality(flag) > 1
    THEN IF w.flags \cap Not(flag) = {} THEN w
         ELSE conn_flag_do_it_timer([w EXCEPT !.flags = @ \cap flag], flag)
    ELSE IF w.flags \cap flag # {}
         THEN IF flag = ACK_FROM_TAP_DUE THEN tcp_timer_ctl_it(w) ELSE w
         ELSE conn_flag_do_it_timer([w EXCEPT !.flags = @ \cup flag], flag)

\* tcp_update_seqack_wnd(), the return value: prev is the connection when
\* the function was entered
tcp_update_seqack_wnd_out(w, prev, new_wnd_to_tap) ==
    [w EXCEPT !.ret = IF \/ new_wnd_to_tap # prev.wnd_to_tap
                         \/ w.seq_ack_to_tap # prev.seq_ack_to_tap
                      THEN 1 ELSE 0]

\* tcp_update_seqack_wnd(), the window of the kernel being known
tcp_update_seqack_wnd_set(w, prev, new_wnd_to_tap) ==
    tcp_update_seqack_wnd_out(
        IF new_wnd_to_tap = 0
        THEN conn_flag_do_it([w EXCEPT !.wnd_to_tap = 0], ACK_TO_TAP_DUE)
        ELSE [w EXCEPT !.wnd_to_tap = new_wnd_to_tap],
        prev, new_wnd_to_tap)

\* tcp_update_seqack_wnd(), from the test of KERNEL_REPORTS_SND_WND() on:
\* have tells whether tinfo is filled, e what the system calls give
tcp_update_seqack_wnd_wnd(w, prev, have, e) ==
    IF ~w.kernel_snd_wnd
    THEN tcp_update_seqack_wnd_out(
             [w EXCEPT !.wnd_to_tap = MinOf(e.sndbuf, MAX_WINDOW)],
             prev, MinOf(e.sndbuf, MAX_WINDOW))
    ELSE IF ~have /\ (prev.wnd_to_tap > WINDOW_DEFAULT \/ e.tinfo_err)
    THEN tcp_update_seqack_wnd_out(w, prev, prev.wnd_to_tap)
    ELSE tcp_update_seqack_wnd_set(
             w, prev,
             MinOf(IF w.flags \cap LOCAL_FLAG # {} \/ e.rtt_low
                   THEN w.tcpi_snd_wnd
                   ELSE MinOf(w.tcpi_snd_wnd, e.sndbuf),
                   MAX_WINDOW))

\* tcp_update_seqack_wnd(c, conn, force_seq, tinfo): have is tinfo != NULL
tcp_update_seqack_wnd_tinfo(w, force_seq, have, e) ==
    IF e.sndbuf < SNDBUF_SMALL \/ e.rtt_low \/ w.flags \cap LOCAL_FLAG # {} \/ force_seq
    THEN tcp_update_seqack_wnd_wnd([w EXCEPT !.seq_ack_to_tap = w.seq_from_tap],
                                   w, have, e)
    ELSE IF w.seq_ack_to_tap # w.seq_from_tap
    THEN IF ~have /\ e.tinfo_err THEN [w EXCEPT !.ret = 0]
         ELSE tcp_update_seqack_wnd_wnd(
                  [w EXCEPT !.seq_ack_to_tap =
                                IF w.tcpi_bytes_acked < @ THEN @
                                ELSE w.tcpi_bytes_acked],
                  w, TRUE, e)
    ELSE tcp_update_seqack_wnd_wnd(w, w, have, e)

\* tcp_send_flag() of ACK or ACK_IF_NEEDED, once tcp_update_seqack_wnd()
\* returned: the frame carries wnd_to_tap
tcp_send_flag_it_fill(w, flags) ==
    IF w.ret = 0 /\ flags = ACK_IF_NEEDED THEN w
    ELSE conn_flag_do_it([w EXCEPT !.adv = w.wnd_to_tap, !.acks = MinOf(@ + 1, 2)],
                         IF w.seq_ack_to_tap >= w.seq_from_tap
                         THEN Not(ACK_TO_TAP_DUE) ELSE ACK_TO_TAP_DUE)

tcp_send_flag_it(w, flags, e) ==
    IF w.seq_ack_to_tap >= w.seq_from_tap /\ flags = ACK_IF_NEEDED /\ w.wnd_to_tap # 0
    THEN w
    ELSE IF e.tinfo_err THEN [w EXCEPT !.closed = TRUE]
    ELSE tcp_send_flag_it_fill(
             tcp_update_seqack_wnd_tinfo(
                 [w EXCEPT !.kernel_snd_wnd = @ \/ w.tcpi_snd_wnd # 0],
                 flags # ACK_IF_NEEDED, TRUE, e),
             flags)

\* tcp_tap_handler() of an established connection, n bytes of data of the
\* guest written to the socket by tcp_data_from_tap()
tcp_tap_handler_it_due(w) ==
    IF ~w.closed /\ w.seq_ack_to_tap # w.seq_from_tap
    THEN conn_flag_do_it(w, ACK_TO_TAP_DUE) ELSE w

tcp_tap_handler_it(w, n, e) ==
    tcp_tap_handler_it_due(
        tcp_send_flag_it([w EXCEPT !.seq_from_tap = @ + n], ACK_IF_NEEDED, e))

\* tcp_timer_handler(), the timer having expired: act_old tells whether
\* old.it_value.tv_sec == ACT_TIMEOUT
tcp_timer_handler_it_sent(w) ==
    IF w.closed THEN w ELSE tcp_timer_ctl_it(w)

tcp_timer_handler_it(w, act_old, e) ==
    IF w.flags \cap ACK_TO_TAP_DUE # {}
    THEN tcp_timer_handler_it_sent(tcp_send_flag_it(w, ACK_IF_NEEDED, e))
    ELSE IF w.flags \cap ACK_FROM_TAP_DUE # {}
    THEN tcp_timer_ctl_it(w)
    ELSE IF act_old THEN [w EXCEPT !.closed = TRUE]
    ELSE [w EXCEPT !.timer = "ACT_TIMEOUT"]

\* An established connection right after the handshake, the window of the
\* peer being snd_wnd
WndStart(local, snd_wnd) ==
    [kernel_snd_wnd |-> FALSE, flags |-> IF local THEN LOCAL_FLAG ELSE {},
     seq_from_tap |-> 0, seq_ack_to_tap |-> 0, wnd_to_tap |-> WINDOW_DEFAULT,
     timer |-> "none", tcpi_snd_wnd |-> snd_wnd, tcpi_bytes_acked |-> 0,
     adv |-> WINDOW_DEFAULT, acks |-> 0, closed |-> FALSE, ret |-> 0]

WndInit == wnd = WndStart(FALSE, 1)

(***************************************************************************)
(* Data segments of the guest for one established connection, and the      *)
(* duplicate ACK for a segment beyond seq_from_tap (tcp_data_from_tap())   *)
(***************************************************************************)
\* Bits of seq_dup_ack_approx (8 in the program)
DupBits == 2

\* Segments in a batch, bytes of a segment, and bytes the guest sends in all
MaxBatch == 2

MaxSegLen == 2

MaxTapBytes == 5

\* tcp_send_flag() of this model: a frame acknowledging seq_from_tap is
\* queued, twice with DUP_ACK; ACK_IF_NEEDED queues it if e.needed; nothing
\* is queued and the connection is closed if getsockopt() fails
tcp_send_flag_l2(d, flags, e) ==
    IF flags = {} /\ ~e.needed THEN d
    ELSE IF e.tinfo_err THEN [d EXCEPT !.closed = TRUE]
    ELSE [d EXCEPT !.frames = @ \o (IF "DUP_ACK" \in flags
                                    THEN <<[ack |-> d.seq_from_tap, dup |-> TRUE],
                                           [ack |-> d.seq_from_tap, dup |-> TRUE]>>
                                    ELSE <<[ack |-> d.seq_from_tap, dup |-> FALSE]>>)]

\* The loop of tcp_data_from_tap() over segments with data: i is the segment
\* looked at, keep the first segment beyond seq_from_tap (0: none, -1 in the
\* program), iov the bytes taken for the socket
RECURSIVE tcp_data_from_tap_loop(_, _, _, _, _)
tcp_data_from_tap_loop(p, i, seq_from_tap, iov, keep) ==
    IF i > Len(p) THEN [seq_from_tap |-> seq_from_tap, iov |-> iov, keep |-> keep]
    ELSE IF /\ SEQ_GE((seq_from_tap - p[i].seq) % SeqMod, 0)
            /\ SEQ_LE((p[i].seq + p[i].len) % SeqMod, seq_from_tap)
    THEN tcp_data_from_tap_loop(p, i + 1, seq_from_tap, iov, keep)
    ELSE IF SEQ_LT((seq_from_tap - p[i].seq) % SeqMod, 0)
    THEN tcp_data_from_tap_loop(p, i + 1, seq_from_tap, iov,
                                IF keep = 0 THEN i ELSE keep)
    ELSE tcp_data_from_tap_loop(
             p,
             IF keep # 0 /\ keep # i THEN keep ELSE i + 1,
             (p[i].seq + p[i].len) % SeqMod,
             iov + p[i].len - ((seq_from_tap - p[i].seq) % SeqMod),
             IF keep = i THEN 0 ELSE keep)

\* Mutant: the duplicate ACK is sent whatever the stamp
tcp_data_from_tap_dup_ack_unstamped(d, keep, e) ==
    IF keep # 0
    THEN tcp_send_flag_l2(
             [d EXCEPT !.seq_dup_ack_approx = d.seq_from_tap % (2 ^ DupBits),
                       !.keep = TRUE],
             {"ACK", "DUP_ACK"}, e)
    ELSE tcp_send_flag_l2(d, {}, e)
\* tcp_data_from_tap(), from the label out on (the segments carry no FIN)
tcp_data_from_tap_dup_ack(d, keep, e) ==
    IF keep # 0
    THEN IF d.seq_dup_ack_approx # d.seq_from_tap % (2 ^ DupBits)
         THEN tcp_send_flag_l2(
                  [d EXCEPT !.seq_dup_ack_approx = d.seq_from_tap % (2 ^ DupBits),
                            !.keep = TRUE],
                  {"ACK", "DUP_ACK"}, e)
         ELSE [d EXCEPT !.keep = TRUE]
    ELSE tcp_send_flag_l2(d, {}, e)

\* tcp_data_from_tap(), sendmsg() having returned n (-1 with errno EPIPE,
\* EAGAIN or another one in e.errno): l is what the loop found
tcp_data_from_tap_sent(d, l, n, e) ==
    IF n < 0
    THEN IF e.errno = "EPIPE"
         THEN [tcp_send_flag_l2([d EXCEPT !.seq_from_tap = l.seq_from_tap],
                                {"ACK"}, e) EXCEPT !.closed = TRUE]
         ELSE IF e.errno = "EAGAIN" THEN tcp_send_flag_l2(d, {}, e)
         ELSE [d EXCEPT !.closed = TRUE]
    ELSE IF n < l.iov
    THEN tcp_data_from_tap_dup_ack(
             tcp_send_flag_l2([d EXCEPT !.seq_from_tap = (@ + n) % SeqMod], {}, e),
             l.keep, e)
    ELSE tcp_data_from_tap_dup_ack([d EXCEPT !.seq_from_tap = (@ + n) % SeqMod],
                               l.keep, e)

tcp_data_from_tap_found(d, l, n, e) ==
    IF l.iov = 0 THEN tcp_data_from_tap_dup_ack(d, l.keep, e)
    ELSE tcp_data_from_tap_sent(d, l, IF n > l.iov THEN l.iov ELSE n, e)

\* tcp_data_from_tap() of a batch p of segments with data, without ACK, FIN
\* or RST; a return of -1 makes tcp_tap_handler() reset the connection
tcp_data_from_tap_batch(d, p, n, e) ==
    tcp_data_from_tap_found(
        [d EXCEPT !.frames = <<>>, !.keep = FALSE, !.called = TRUE,
                  !.seq0 = d.seq_from_tap, !.stamp0 = d.seq_dup_ack_approx,
                  !.tinfo_err = e.tinfo_err, !.prev_acked = d.dup_acked],
        tcp_data_from_tap_loop(p, 1, d.seq_from_tap, 0, 0), n, e)

\* A connection right after the handshake: the flow entry was zeroed by
\* flow_alloc(), seq_from_tap is the sequence number of the SYN plus one.
\* frames, keep (a segment beyond seq_from_tap was left at the label out),
\* seq0, stamp0 and tinfo_err tell what the last call did; dup_acked holds
\* the values of seq_from_tap for which a pair of duplicate ACKs was queued,
\* prev_acked the same before the last call
DupStart(seq) ==
    [seq_from_tap |-> seq, seq_dup_ack_approx |-> 0, closed |-> FALSE,
     frames |-> <<>>, keep |-> FALSE, called |-> FALSE, seq0 |-> seq, stamp0 |-> 0,
     tinfo_err |-> FALSE, dup_acked |-> {}, prev_acked |-> {}, bytes |-> 0]

DupInit == dup = DupStart(1)

(***************************************************************************)
(* The connection of the client on the AF_UNIX socket (tap.c):             *)
(* c->fd_tap, its registration with epoll, and c->one_off                  *)
(***************************************************************************)
\* Descriptors accept4() may return, clients waiting on the listening
\* socket at most, and clients connecting in all
TapFds == 5..6

MaxPending == 2

MaxClients == 3

\* Mutant: the descriptor is removed from epoll but left open and in use
tap_sock_reset_keep_fd(t) ==
    IF t.one_off THEN [t EXCEPT !.exited = TRUE]
    ELSE [t EXCEPT !.epoll = @ \ {t.fd_tap}]
\* tap_sock_reset()
tap_sock_reset(t) ==
    IF t.one_off THEN [t EXCEPT !.exited = TRUE]
    ELSE [t EXCEPT !.epoll = @ \ {t.fd_tap}, !.open = @ \ {t.fd_tap}, !.fd_tap = -1]

\* tap_handler_passt() as to the connection: events are the epoll events, r
\* is what the last recv(MSG_DONTWAIT) of the run returns: "data", "eof" (0),
\* "EINTR", "EAGAIN" (or EWOULDBLOCK), "err" (-1 with another errno)
tap_handler_passt_fd(t, events, r) ==
    IF events \cap {"EPOLLRDHUP", "EPOLLHUP", "EPOLLERR"} # {} THEN tap_sock_reset(t)
    ELSE IF r = "err" THEN tap_sock_reset(t)
    ELSE t

\* tap_listen_handler(): a is what accept4() returns
tap_listen_handler(t, events, a) ==
    IF events # {"EPOLLIN"} THEN [t EXCEPT !.exited = TRUE]
    ELSE IF t.fd_tap # -1 THEN t
    ELSE IF a = -1 THEN [t EXCEPT !.fd_tap = -1]
    ELSE [t EXCEPT !.fd_tap = a, !.open = @ \cup {a}, !.epoll = @ \cup {a}]

\* No client yet; last tells what the last handler was called with
TapcStart(one_off) ==
    [one_off |-> one_off, exited |-> FALSE, fd_tap |-> -1, epoll |-> {}, open |-> {},
     pending |-> 0, clients |-> 0, peer_open |-> FALSE,
     last |-> [op |-> "none", events |-> {}, r |-> "none", fd |-> -1, a |-> -1]]

TapcInit == tapc = TapcStart(FALSE)

(***************************************************************************)
(* UDP bindings with a timeout (udp.c): udp_tap_map[V4], udp_splice_init   *)
(* [V4] and udp_splice_ns[V4], the activity bitmaps udp_act[V4][] and the  *)
(* timer that closes the sockets of the ports without recent traffic       *)
(***************************************************************************)
\* Seconds of UDP_CONN_TIMEOUT (180 in the program), and the last second
UDP_CONN_TIMEOUT == 1

MaxNow == 2

\* Runs of the timer that rebind ports
MaxRebinds == 1

\* Ports with bindings, and the descriptors of their sockets
UdptPorts == 0..1

UdptFds == 3..6

UDP_ACT_TAP == "UDP_ACT_TAP"

UDP_ACT_SPLICE_INIT == "UDP_ACT_SPLICE_INIT"

UDP_ACT_SPLICE_NS == "UDP_ACT_SPLICE_NS"

\* enum udp_act_type in the order of the scan of udp_timer()
UdpActTypes == <<UDP_ACT_TAP, UDP_ACT_SPLICE_INIT, UDP_ACT_SPLICE_NS>>

\* A socket is registered with epoll and stored as the socket of the port
udpt_sock(u, type, port, s) ==
    [u EXCEPT !.map[type][port].sock = s, !.open = @ \cup {s}, !.epoll = @ \cup {s}]

bitmap_set(u, type, port) == [u EXCEPT !.act[type] = @ \cup {port}]

\* Mutant: the socket is closed however recent the timestamp
udp_timer_one_no_timeout(u, type, port) ==
    IF u.map[type][port].sock >= 0
    THEN [u EXCEPT !.map[type][port].sock = -1,
                   !.map[type][port].flags =
                       IF type = UDP_ACT_TAP THEN {} ELSE @,
                   !.epoll = @ \ {u.map[type][port].sock},
                   !.open = @ \ {u.map[type][port].sock},
                   !.orig = @ \ {u.map[type][port].sock},
                   !.reclosed = @ \cup ({u.map[type][port].sock} \ u.open),
                   !.act[type] = @ \ {port},
                   !.timed_out = @ \cup {<<type, port>>}]
    ELSE u
\* udp_timer_one()
udp_timer_one(u, type, port) ==
    IF u.now - u.map[type][port].ts > UDP_CONN_TIMEOUT
    THEN IF u.map[type][port].sock >= 0
         THEN [u EXCEPT !.map[type][port].sock = -1,
                        !.map[type][port].flags =
                            IF type = UDP_ACT_TAP THEN {} ELSE @,
                        !.epoll = @ \ {u.map[type][port].sock},
                        !.open = @ \ {u.map[type][port].sock},
                        !.orig = @ \ {u.map[type][port].sock},
                        !.reclosed = @ \cup ({u.map[type][port].sock} \ u.open),
                        !.act[type] = @ \ {port},
                        !.timed_out = @ \cup {<<type, port>>}]
         ELSE [u EXCEPT !.map[type][port].flags =
                            IF type = UDP_ACT_TAP THEN {} ELSE @]
    ELSE u

\* udp_timer(), the scan of the bitmap of the t-th type from port on
RECURSIVE udp_timer_scan(_, _, _)
udp_timer_scan(u, t, port) ==
    IF t > Len(UdpActTypes) THEN u
    ELSE IF port \notin UdptPorts THEN udp_timer_scan(u, t + 1, 0)
    ELSE udp_timer_scan(IF port \in u.act[UdpActTypes[t]]
                        THEN udp_timer_one(u, UdpActTypes[t], port) ELSE u,
                        t, port + 1)

\* udp_timer() without port forwarding in FWD_AUTO mode
udp_timer(u) == udp_timer_scan([u EXCEPT !.timed_out = {}], 1, 0)

\* udp_sock_init() with ns == 0 for port, IPv4: s is what sock_l4() returns
udp_sock_init(u, port, s) ==
    IF s < 0
    THEN [u EXCEPT !.map[UDP_ACT_TAP][port].sock = -1,
                   !.map[UDP_ACT_SPLICE_INIT][port].sock = -1]
    ELSE [u EXCEPT !.map[UDP_ACT_TAP][port].sock = s,
                   !.map[UDP_ACT_SPLICE_INIT][port].sock = s,
                   !.open = @ \cup {s}, !.epoll = @ \cup {s},
                   !.orig = @ \cup {s}]

\* The lowest descriptor that is not open in u, or -1
udpt_lowest_fd(u) ==
    IF UdptFds \ u.open = {} THEN -1
    ELSE CHOOSE fd \in UdptFds \ u.open : \A g \in UdptFds \ u.open : fd <= g

\* udp_port_rebind() of inbound ports, IPv4, for one port: fmap is the map
\* of the ports to forward (none is forwarded the other way), ok tells
\* whether sock_l4() succeeds
udp_port_rebind_one(u, fmap, port, ok) ==
    IF port \notin fmap
    THEN IF u.map[UDP_ACT_SPLICE_INIT][port].sock >= 0
         THEN [u EXCEPT !.map[UDP_ACT_SPLICE_INIT][port].sock = -1,
                        !.open = @ \ {u.map[UDP_ACT_SPLICE_INIT][port].sock},
                        !.epoll = @ \ {u.map[UDP_ACT_SPLICE_INIT][port].sock},
                        !.orig = @ \ {u.map[UDP_ACT_SPLICE_INIT][port].sock},
                        !.reclosed =
                            @ \cup ({u.map[UDP_ACT_SPLICE_INIT][port].sock} \ u.open)]
         ELSE u
    ELSE IF u.map[UDP_ACT_SPLICE_INIT][port].sock = -1
    THEN udp_sock_init(u, port, IF ok THEN udpt_lowest_fd(u) ELSE -1)
    ELSE u

RECURSIVE udp_port_rebind(_, _, _, _)
udp_port_rebind(u, fmap, port, ok) ==
    IF port \notin UdptPorts THEN u
    ELSE udp_port_rebind(udp_port_rebind_one(u, fmap, port, ok), fmap, port + 1, ok)

\* udp_timer() in pasta mode with inbound ports forwarded in FWD_AUTO
\* mode: fmap is what fwd_scan_ports_udp() finds
udp_timer_auto(u, fmap, ok) == udp_timer(udp_port_rebind(u, fmap, 0, ok))

\* udp_tap_handler() for datagrams of the guest from port src: dns tells
\* whether they go to the DNS address to match, port 53; s is what sock_l4()
\* returns if the port has no socket
udp_tap_handler_sock(u, src, s) ==
    IF u.map[UDP_ACT_TAP][src].sock >= 0
    THEN [u EXCEPT !.map[UDP_ACT_TAP][src].ts = u.now, !.carried[src] = u.now]
    ELSE IF s < 0 THEN u
    ELSE [bitmap_set(udpt_sock(u, UDP_ACT_TAP, src, s), UDP_ACT_TAP, src)
            EXCEPT !.map[UDP_ACT_TAP][src].ts = u.now, !.carried[src] = u.now]

udp_tap_handler(u, src, dns, s) ==
    udp_tap_handler_sock(
        IF dns
        THEN [bitmap_set(u, UDP_ACT_TAP, src)
                EXCEPT !.map[UDP_ACT_TAP][src].ts = u.now,
                       !.map[UDP_ACT_TAP][src].flags = @ \cup {"PORT_DNS_FWD"}]
        ELSE u,
        src, s)

\* udp_update_hdr4() for a datagram received on the socket of dstport, sent
\* from srcport of an address from: "dns_host", "loopback", "addr_seen" or
\* "remote"
udp_update_hdr4(u, dstport, srcport, from) ==
    IF from = "dns_host" /\ "PORT_DNS_FWD" \in u.map[UDP_ACT_TAP][dstport].flags
    THEN u
    ELSE IF from \in {"loopback", "addr_seen"}
    THEN [bitmap_set(u, UDP_ACT_TAP, srcport)
            EXCEPT !.map[UDP_ACT_TAP][srcport].ts = u.now,
                   !.map[UDP_ACT_TAP][srcport].flags =
                       IF from = "loopback"
                       THEN @ \cup {"PORT_LOCAL", "PORT_LOOPBACK"}
                       ELSE (@ \cup {"PORT_LOCAL"}) \ {"PORT_LOOPBACK"}]
    ELSE u

\* udp_buf_sock_handler() of the socket of a port of udp_tap_map, one
\* datagram for the guest: udp_tap_send()
udp_buf_sock_handler(u, port, srcport, from) ==
    [udp_update_hdr4(u, port, srcport, from) EXCEPT !.carried[port] = u.now]

\* udp_splice_sendfrom() with from_pif == PIF_SPLICE and allow_new: the
\* datagram goes out of the socket of udp_splice_init[src], s is what
\* udp_splice_new() gets from socket() and bind()
udp_splice_sendfrom_ts(u, src, dst) ==
    [u EXCEPT !.map[UDP_ACT_SPLICE_NS][dst].ts = u.now,
              !.map[UDP_ACT_SPLICE_INIT][src].ts = u.now]

udp_splice_sendfrom(u, src, dst, s) ==
    IF u.map[UDP_ACT_SPLICE_INIT][src].sock >= 0
    THEN udp_splice_sendfrom_ts(u, src, dst)
    ELSE IF s < 0 THEN u
    ELSE udp_splice_sendfrom_ts(
             bitmap_set(udpt_sock(u, UDP_ACT_SPLICE_INIT, src, s),
                        UDP_ACT_SPLICE_INIT, src),
             src, dst)

\* udp_init(): no socket; then udp_sock_init() for the forwarded ports,
\* whose socket is stored in udp_tap_map and udp_splice_init. carried is the
\* second of the last datagram through the socket of the port in
\* udp_tap_map, timed_out the bindings closed by the last timer, orig the
\* descriptors of the sockets of udp_sock_init() (orig in their epoll
\* reference)
UdptStart(ports) ==
    [now |-> 0, orig |-> {3 + port : port \in ports}, reclosed |-> {}, rebinds |-> 0,
     map |-> [type \in {UDP_ACT_TAP, UDP_ACT_SPLICE_INIT, UDP_ACT_SPLICE_NS} |->
                 [port \in UdptPorts |->
                     [sock |-> IF port \in ports /\ type # UDP_ACT_SPLICE_NS
                               THEN 3 + port ELSE -1,
                      ts |-> 0, flags |-> {}]]],
     act |-> [type \in {UDP_ACT_TAP, UDP_ACT_SPLICE_INIT, UDP_ACT_SPLICE_NS} |-> {}],
     epoll |-> {3 + port : port \in ports}, open |-> {3 + port : port \in ports},
     carried |-> [port \in UdptPorts |-> 0], timed_out |-> {}, op |-> "init"]

UdptInit == udpt = UdptStart({})

(***************************************************************************)
(* Inbound TCP port forwarding in FWD_AUTO mode (port_fwd.c, tcp.c): the   *)
(* map c->tcp.fwd_in.map as scanned from the listening ports of the        *)
(* namespace, the table tcp_sock_init_ext[][] and the listening sockets    *)
(***************************************************************************)
\* Ports scanned, and descriptors of the listening sockets
RebindPorts == 0..1

RebindFds == 3..6

\* A socket bound to port for af ("V4", "V6" or "dual") cannot be bound and
\* listened on while another one of the program is
bind_conflict(r, port, af) ==
    \E o \in r.open : o.port = port /\ (af = "dual" \/ o.af = "dual" \/ o.af = af)

\* The lowest descriptor not in use
rebind_fd(r) ==
    CHOOSE fd \in RebindFds :
       /\ \A o \in r.open : o.fd # fd
       /\ \A g \in RebindFds : (\A o \in r.open : o.fd # g) => fd <= g

\* sock_l4() for a listening TCP socket: ok tells whether socket(), bind(),
\* listen() and epoll_ctl() succeed as far as other programs are concerned
sock_l4_listen(r, af, port, ok) ==
    IF ok /\ ~bind_conflict(r, port, af) /\ \E fd \in RebindFds : \A o \in r.open : o.fd # fd
    THEN [r EXCEPT !.ret = rebind_fd(r),
                   !.open = @ \cup {[fd |-> rebind_fd(r), port |-> port, af |-> af]}]
    ELSE [r EXCEPT !.ret = -1, !.failed = @ \cup {<<port, af>>}]

\* tcp_sock_init_af() with c->tcp.fwd_in.mode == FWD_AUTO, once sock_l4()
\* returned
tcp_sock_init_af_ext(r, af, port) ==
    [r EXCEPT !.tcp_sock_init_ext[port] =
                  [v \in {"V4", "V6"} |->
                      IF af = "dual" \/ af = v
                      THEN (IF r.ret < 0 THEN -1 ELSE r.ret) ELSE @[v]]]

\* tcp_sock_init(c, AF_UNSPEC, NULL, NULL, port): ok tells for each address
\* family whether sock_l4() can succeed
tcp_sock_init_v6(r, port, ok) ==
    IF r.ifi6
    THEN tcp_sock_init_af_ext(sock_l4_listen(r, "V6", port, ok["V6"]), "V6", port)
    ELSE r

tcp_sock_init_v4(r, port, ok) ==
    tcp_sock_init_v6(
        IF r.ifi4
        THEN tcp_sock_init_af_ext(sock_l4_listen(r, "V4", port, ok["V4"]), "V4", port)
        ELSE r,
        port, ok)

tcp_sock_init_dual(r, port, ok) ==
    IF r.ret >= 0 THEN r ELSE tcp_sock_init_v4(r, port, ok)

tcp_sock_init(r, port, ok) ==
    IF r.ifi4 /\ r.ifi6
    THEN tcp_sock_init_dual(
             tcp_sock_init_af_ext(sock_l4_listen(r, "dual", port, ok["dual"]),
                                  "dual", port),
             port, ok)
    ELSE tcp_sock_init_v4(r, port, ok)

\* close() of the socket stored for port and v, if any, and reset of the
\* entry
tcp_port_rebind_close(r, port, v) ==
    IF r.tcp_sock_init_ext[port][v] >= 0
    THEN [r EXCEPT !.open = {o \in @ : o.fd # r.tcp_sock_init_ext[port][v]},
                   !.tcp_sock_init_ext[port][v] = -1]
    ELSE r

\* tcp_port_rebind(c, false), from port on
RECURSIVE tcp_port_rebind(_, _, _)
tcp_port_rebind(r, port, ok) ==
    IF port \notin RebindPorts THEN r
    ELSE IF port \notin r.fmap
    THEN tcp_port_rebind(
             tcp_port_rebind_close(tcp_port_rebind_close(r, port, "V4"), port, "V6"),
             port + 1, ok)
    ELSE IF port \in r.rmap THEN tcp_port_rebind(r, port + 1, ok)
    ELSE IF \/ r.ifi4 /\ r.tcp_sock_init_ext[port]["V4"] = -1
            \/ r.ifi6 /\ r.tcp_sock_init_ext[port]["V6"] = -1
    THEN tcp_port_rebind(tcp_sock_init(r, port, ok[port]), port + 1, ok)
    ELSE tcp_port_rebind(r, port + 1, ok)

\* get_bound_ports(c, 1, IPPROTO_TCP): the map is emptied, then
\* procfs_scan_listen() sets the ports in listening state that are not
\* forwarded the other way
get_bound_ports(r, listening) ==
    [r EXCEPT !.fmap = {port \in listening : port \notin r.rmap}]

\* tcp_timer() in MODE_PASTA with c->tcp.fwd_in.mode == FWD_AUTO
tcp_timer_fwd_in(r, listening, ok) ==
    tcp_port_rebind([get_bound_ports(r, listening) EXCEPT !.failed = {}], 0, ok)

\* tcp_init(): every entry of tcp_sock_init_ext[][] is -1; failed holds the
\* ports and families for which sock_l4() failed in the last rebind
RebindStart(ifi4, ifi6, rmap) ==
    [ifi4 |-> ifi4, ifi6 |-> ifi6, fmap |-> {}, rmap |-> rmap,
     tcp_sock_init_ext |-> [port \in RebindPorts |-> [v \in {"V4", "V6"} |-> -1]],
     open |-> {}, failed |-> {}, ret |-> 0, scans |-> 0]

RebindInit == rebind = RebindStart(TRUE, TRUE, {})

(***************************************************************************)
(* The timer of one connection (tcp.c): flags and events decide the        *)
(* deadline tcp_timer_ctl() arms, tcp_timer_handler() acts when the        *)
(* timerfd expires. t: [events, flags, timer, left, expired, set, by,      *)
(* retrans, ack_due, unacked, hs, dead, last, ret]                         *)
(*   timer    descriptor of the timerfd, -1 if there is none               *)
(*   left     ms until the timerfd expires, 0 if it is disarmed            *)
(*   expired  the expiry of the timerfd is yet to be handled               *)
(*   set, by  the it_value last passed to timerfd_settime(), and by which  *)
(*            function                                                     *)
(*   at       the flags and events of the connection at that call          *)
(*   ack_due  seq_ack_to_tap is behind seq_from_tap                        *)
(*   unacked  seq_ack_from_tap is behind seq_to_tap                        *)
(*   hs       ms since the SYN or SYN,ACK segment was sent to the guest    *)
(*   dead     the connection was CLOSED                                    *)
(***************************************************************************)
\* ms
ACK_INTERVAL == 10

\* s
SYN_TIMEOUT == 10

ACK_TIMEOUT == 2

FIN_TIMEOUT == 60

ACT_TIMEOUT == 7200

\* struct timespec as ms, and back
timespec_ms(it) == it.tv_sec * 1000 + it.tv_nsec \div 1000000

ms_timespec(ms) == [tv_sec |-> ms \div 1000, tv_nsec |-> (ms % 1000) * 1000000]

\* timerfd_gettime(): the time until the timer expires, zero if it is disarmed
timerfd_gettime(t) == ms_timespec(t.left)

\* timerfd_settime(conn->timer, 0, &it, NULL)
timerfd_settime(t, it, by) ==
    [t EXCEPT !.left = timespec_ms(it), !.set = it, !.by = by,
              !.at = [flags |-> t.flags, events |-> t.events]]

\* Mutant: the FIN timeout is not told from the activity timeout
tcp_timer_ctl_it_value_no_fin(t) ==
    IF t.flags \cap ACK_TO_TAP_DUE # {}
    THEN [tv_sec |-> 0, tv_nsec |-> ACK_INTERVAL * 1000 * 1000]
    ELSE IF t.flags \cap ACK_FROM_TAP_DUE # {}
    THEN IF t.events \cap ESTABLISHED = {}
         THEN [tv_sec |-> SYN_TIMEOUT, tv_nsec |-> 0]
         ELSE [tv_sec |-> ACK_TIMEOUT, tv_nsec |-> 0]
    ELSE [tv_sec |-> ACT_TIMEOUT, tv_nsec |-> 0]
\* tcp_timer_ctl(), the it_value chosen
tcp_timer_ctl_it_value(t) ==
    IF t.flags \cap ACK_TO_TAP_DUE # {}
    THEN [tv_sec |-> 0, tv_nsec |-> ACK_INTERVAL * 1000 * 1000]
    ELSE IF t.flags \cap ACK_FROM_TAP_DUE # {}
    THEN IF t.events \cap ESTABLISHED = {}
         THEN [tv_sec |-> SYN_TIMEOUT, tv_nsec |-> 0]
         ELSE [tv_sec |-> ACK_TIMEOUT, tv_nsec |-> 0]
    ELSE IF CONN_HAS(t, SOCK_FIN_SENT \cup TAP_FIN_ACKED)
    THEN [tv_sec |-> FIN_TIMEOUT, tv_nsec |-> 0]
    ELSE [tv_sec |-> ACT_TIMEOUT, tv_nsec |-> 0]

\* tcp_timer_ctl(): e.timerfd tells whether timerfd_create() and epoll_ctl()
\* succeed if the connection has no timer yet
tcp_timer_ctl_tm(t, e) ==
    IF t.events = CLOSED THEN t
    ELSE IF t.timer = -1 /\ ~e.timerfd THEN t
    ELSE timerfd_settime([t EXCEPT !.timer = 1], tcp_timer_ctl_it_value(t),
                         "tcp_timer_ctl")

\* conn_flag_do()
conn_flag_do_tm_timer(t, flag, e) ==
    IF \/ flag = ACK_FROM_TAP_DUE
       \/ flag = ACK_TO_TAP_DUE
       \/ flag = Not(ACK_FROM_TAP_DUE) /\ t.flags \cap ACK_TO_TAP_DUE # {}
       \/ flag = Not(ACK_TO_TAP_DUE) /\ t.flags \cap ACK_FROM_TAP_DUE # {}
    THEN tcp_timer_ctl_tm(t, e)
    ELSE t

conn_flag_do_tm(t, flag, e) ==
    IF Cardinality(flag) > 1
    THEN IF t.flags \cap Not(flag) = {} THEN t
         ELSE conn_flag_do_tm_timer([t EXCEPT !.flags = @ \cap flag], flag, e)
    ELSE IF t.flags \cap flag # {}
         THEN IF flag = ACK_FROM_TAP_DUE THEN tcp_timer_ctl_tm(t, e) ELSE t
         ELSE conn_flag_do_tm_timer([t EXCEPT !.flags = @ \cup flag], flag, e)

\* conn_event_do()
conn_event_do_tm_timer(t, e) ==
    IF CONN_HAS(t, SOCK_FIN_SENT \cup TAP_FIN_ACKED) THEN tcp_timer_ctl_tm(t, e)
    ELSE t

conn_event_do_tm_set(t, event, e) ==
    conn_event_do_tm_timer(
        IF event # CLOSED /\ event = TAP_FIN_RCVD /\ t.events \cap SOCK_FIN_RCVD = {}
        THEN conn_flag_do_tm(t, ACTIVE_CLOSE, e) ELSE t, e)

conn_event_do_tm(t, event, e) ==
    IF t.events \cap event # {} THEN t
    ELSE conn_event_do_tm_set([t EXCEPT !.events = conn_event_set(@, event),
                                        !.dead = @ \/ event = CLOSED],
                              event, e)

\* tcp_send_flag(): flags is the set of "SYN", "ACK", "FIN", "RST" passed, {}
\* for ACK_IF_NEEDED; the window advertised is not zero. e.tinfo_err: the
\* getsockopt() fails; e.acked: the socket acknowledged all the data of the
\* guest; e.wnd_new: the window to advertise changed
tcp_send_flag_tm_seq(t, flags, e) ==
    [(IF "FIN" \in flags THEN conn_flag_do_tm(t, ACK_FROM_TAP_DUE, e) ELSE t)
       EXCEPT !.unacked = @ \/ flags \cap {"SYN", "FIN"} # {},
              !.hs = IF "SYN" \in flags THEN 0 ELSE @,
              !.ret = 0]

tcp_send_flag_tm_fill(t, flags, e) ==
    tcp_send_flag_tm_seq(
        IF "ACK" \in flags \/ flags \cap {"SYN", "RST"} = {}
        THEN conn_flag_do_tm(t, IF t.ack_due THEN ACK_TO_TAP_DUE
                                ELSE Not(ACK_TO_TAP_DUE), e)
        ELSE t,
        flags, e)

tcp_send_flag_tm_wnd(t, prev, flags, e) ==
    IF flags = {} /\ t.ack_due = prev.ack_due /\ ~e.wnd_new
    THEN [t EXCEPT !.ret = 0]
    ELSE tcp_send_flag_tm_fill(t, flags, e)

tcp_send_flag_tm(t, flags, e) ==
    IF ~t.ack_due /\ flags = {} THEN [t EXCEPT !.ret = 0]
    ELSE IF e.tinfo_err
    THEN [conn_event_do_tm(t, CLOSED, e) EXCEPT !.ret = -1]
    ELSE tcp_send_flag_tm_wnd(
             [t EXCEPT !.ack_due = @ /\ flags = {} /\ ~e.acked], t, flags, e)

\* tcp_rst_do()
tcp_rst_tm_sent(t, e) ==
    IF t.ret = 0 THEN conn_event_do_tm(t, CLOSED, e) ELSE t

tcp_rst_tm(t, e) ==
    IF t.events = CLOSED THEN t
    ELSE tcp_rst_tm_sent(tcp_send_flag_tm(t, {"RST"}, e), e)

\* tcp_data_from_sock(): e.wnd is whether the window of the guest has room,
\* e.recv what recvmsg() gives
tcp_data_from_sock_tm_fin(t, e) ==
    IF t.ret # 0 THEN tcp_rst_tm(t, e) ELSE conn_event_do_tm(t, TAP_FIN_SENT, e)

tcp_data_from_sock_tm(t, e) ==
    IF ~e.wnd
    THEN conn_flag_do_tm(conn_flag_do_tm(t, STALLED, e), ACK_FROM_TAP_DUE, e)
    ELSE IF e.recv = "err" THEN tcp_rst_tm(t, e)
    ELSE IF e.recv = "eagain" THEN t
    ELSE IF e.recv = "eof"
    THEN IF t.events \cap (SOCK_FIN_RCVD \cup TAP_FIN_SENT) = SOCK_FIN_RCVD
         THEN tcp_data_from_sock_tm_fin(tcp_send_flag_tm(t, {"FIN", "ACK"}, e), e)
         ELSE t
    ELSE conn_flag_do_tm(
             [conn_flag_do_tm(t, Not(STALLED), e) EXCEPT !.unacked = TRUE],
             ACK_FROM_TAP_DUE, e)

\* tcp_update_seqack_from_tap(): ack is "all" for seq == seq_to_tap, "some"
\* for a seq between seq_ack_from_tap and seq_to_tap, "old" for one that is
\* not SEQ_GT(seq, seq_ack_from_tap)
tcp_update_seqack_from_tap_tm_gt(t, ack, e) ==
    IF ack = "some" \/ (ack = "all" /\ t.unacked)
    THEN [(IF ack = "some" THEN conn_flag_do_tm(t, ACK_FROM_TAP_DUE, e) ELSE t)
            EXCEPT !.retrans = 0, !.unacked = ack = "some"]
    ELSE t

tcp_update_seqack_from_tap_tm(t, ack, e) ==
    tcp_update_seqack_from_tap_tm_gt(
        IF ack = "all" THEN conn_flag_do_tm(t, Not(ACK_FROM_TAP_DUE), e) ELSE t,
        ack, e)

\* tcp_data_from_tap() of one segment seg: [ack, data, fin], e.send what
\* sendmsg() does with its data ("all", "part", "eagain", "err")
tcp_data_from_tap_tm_out(t, seg, partial_send, e) ==
    IF seg.fin /\ ~partial_send
    THEN [conn_event_do_tm([t EXCEPT !.ack_due = TRUE], TAP_FIN_RCVD, e)
            EXCEPT !.ret = 1]
    ELSE [tcp_send_flag_tm(t, {}, e) EXCEPT !.ret = 1]

tcp_data_from_tap_tm_acked(t, seg, partial_send, e) ==
    tcp_data_from_tap_tm_out(
        IF seg.ack # "none" /\ t.events \cap TAP_FIN_SENT # {} /\ ~t.unacked
        THEN conn_event_do_tm(t, TAP_FIN_ACKED, e) ELSE t,
        seg, partial_send, e)

tcp_data_from_tap_tm_send(t, seg, e) ==
    IF ~seg.data THEN tcp_data_from_tap_tm_acked(t, seg, FALSE, e)
    ELSE IF e.send = "err" THEN [t EXCEPT !.ret = -1]
    ELSE IF e.send = "eagain" THEN [tcp_send_flag_tm(t, {}, e) EXCEPT !.ret = 1]
    ELSE IF e.send = "part"
    THEN tcp_data_from_tap_tm_acked(
             tcp_send_flag_tm([t EXCEPT !.ack_due = TRUE], {}, e), seg, TRUE, e)
    ELSE tcp_data_from_tap_tm_acked([t EXCEPT !.ack_due = TRUE], seg, FALSE, e)

tcp_data_from_tap_tm(t, seg, e) ==
    IF t.events = CLOSED THEN [t EXCEPT !.ret = 1]
    ELSE tcp_data_from_tap_tm_send(
             IF seg.ack # "none" /\ e.consumed
             THEN tcp_update_seqack_from_tap_tm(t, seg.ack, e) ELSE t,
             seg, e)

\* tcp_conn_from_sock_finish()
tcp_conn_from_sock_finish_tm(t, e) ==
    tcp_send_flag_tm(
        tcp_data_from_sock_tm(conn_event_do_tm(t, ESTABLISHED, e), e),
        {"ACK"}, e)

\* tcp_tap_handler() for a segment seg: [rst, syn, ack, data, fin] of the
\* connection
tcp_tap_handler_tm_fin(t, e) ==
    IF t.events \cap TAP_FIN_RCVD # {} /\ t.events \cap SOCK_FIN_SENT = {}
    THEN tcp_send_flag_tm(conn_event_do_tm(t, SOCK_FIN_SENT, e), {"ACK"}, e)
    ELSE IF t.ack_due THEN conn_flag_do_tm(t, ACK_TO_TAP_DUE, e)
    ELSE t

tcp_tap_handler_tm_data(t, e) ==
    IF t.ret = -1 THEN tcp_rst_tm(t, e)
    ELSE tcp_tap_handler_tm_fin(conn_flag_do_tm(t, Not(STALLED), e), e)

tcp_tap_handler_tm_closing(t, e) ==
    IF t.events \cap SOCK_FIN_RCVD # {} /\ ~t.unacked
    THEN conn_event_do_tm(t, CLOSED, e) ELSE t

tcp_tap_handler_tm_est(t, seg, e) ==
    IF t.events \cap TAP_FIN_RCVD # {}
    THEN tcp_tap_handler_tm_closing(tcp_update_seqack_from_tap_tm(t, seg.ack, e), e)
    ELSE tcp_tap_handler_tm_data(tcp_data_from_tap_tm(t, seg, e), e)

\* the connection was started by the guest, an answer to SYN,ACK
tcp_tap_handler_tm_syn_rcvd(t, seg, e) ==
    IF seg.fin
    THEN conn_event_do_tm(
             tcp_send_flag_tm([t EXCEPT !.ack_due = TRUE], {"ACK"}, e),
             SOCK_FIN_SENT, e)
    ELSE IF seg.ack = "none" THEN tcp_rst_tm(t, e)
    ELSE tcp_data_from_sock_tm(t, e)

tcp_tap_handler_tm_hs(t, seg, e) ==
    IF t.events \cap SOCK_ACCEPTED # {}
    THEN IF seg.syn /\ seg.ack # "none" /\ ~seg.fin
         THEN tcp_conn_from_sock_finish_tm(t, e)
         ELSE tcp_rst_tm(t, e)
    ELSE IF t.events \cap TAP_SYN_RCVD # {}
    THEN IF t.events \cap TAP_SYN_ACK_SENT = {} THEN tcp_rst_tm(t, e)
         ELSE tcp_tap_handler_tm_syn_rcvd(conn_event_do_tm(t, ESTABLISHED, e),
                                          seg, e)
    ELSE tcp_tap_handler_tm_est(t, seg, e)

tcp_tap_handler_tm(t, seg, e) ==
    IF seg.rst THEN conn_event_do_tm(t, CLOSED, e)
    ELSE tcp_tap_handler_tm_hs(
             IF seg.ack # "none" /\ t.events \cap ESTABLISHED = {}
             THEN tcp_update_seqack_from_tap_tm(t, seg.ack, e) ELSE t,
             seg, e)

\* tcp_conn_from_tap(), from conn_event(TAP_SYN_RCVD) on: connect is what
\* connect() does ("ok", "EINPROGRESS", or an error), bind() having failed as
\* it does for an address that is not local
tcp_conn_from_tap_tm_sent(t, e) ==
    IF t.ret # 0 THEN t ELSE conn_event_do_tm(t, TAP_SYN_ACK_SENT, e)

tcp_conn_from_tap_tm_connect(t, connect, e) ==
    IF connect = "EINPROGRESS" THEN t
    ELSE IF connect = "ok"
    THEN tcp_conn_from_tap_tm_sent(tcp_send_flag_tm(t, {"SYN", "ACK"}, e), e)
    ELSE tcp_rst_tm(t, e)

tcp_conn_from_tap_tm(t, connect, e) ==
    tcp_conn_from_tap_tm_connect(conn_event_do_tm(t, TAP_SYN_RCVD, e), connect, e)

\* tcp_connect_finish(): so_err is whether SO_ERROR reports an error
tcp_connect_finish_tm_sent(t, e) ==
    IF t.ret # 0 THEN t
    ELSE conn_flag_do_tm(conn_event_do_tm(t, TAP_SYN_ACK_SENT, e),
                         ACK_FROM_TAP_DUE, e)

tcp_connect_finish_tm(t, so_err, e) ==
    IF so_err THEN tcp_rst_tm(t, e)
    ELSE tcp_connect_finish_tm_sent(tcp_send_flag_tm(t, {"SYN", "ACK"}, e), e)

\* tcp_tap_conn_from_sock()
tcp_tap_conn_from_sock_tm(t, e) ==
    conn_flag_do_tm(
        tcp_send_flag_tm(conn_event_do_tm(t, SOCK_ACCEPTED, e), {"SYN"}, e),
        ACK_FROM_TAP_DUE, e)

\* tcp_sock_handler()
tcp_sock_handler_tm_out(t, events, e) ==
    IF "EPOLLOUT" \in events THEN [t EXCEPT !.ack_due = @ /\ ~e.acked] ELSE t

tcp_sock_handler_tm_in(t, events, e) ==
    tcp_sock_handler_tm_out(
        IF "EPOLLIN" \in events THEN tcp_data_from_sock_tm(t, e) ELSE t, events, e)

tcp_sock_handler_tm_hup(t, events, e) ==
    tcp_sock_handler_tm_in(
        IF events \cap {"EPOLLRDHUP", "EPOLLHUP"} # {}
        THEN conn_event_do_tm(t, SOCK_FIN_RCVD, e) ELSE t, events, e)

tcp_sock_handler_tm(t, events, so_err, e) ==
    IF t.events = CLOSED THEN t
    ELSE IF "EPOLLERR" \in events THEN tcp_rst_tm(t, e)
    ELSE IF t.events \cap TAP_FIN_SENT # {} /\ "EPOLLHUP" \in events
    THEN conn_event_do_tm(t, CLOSED, e)
    ELSE IF t.events \cap ESTABLISHED # {}
    THEN tcp_sock_handler_tm_hup(
             IF CONN_HAS(t, SOCK_FIN_SENT \cup TAP_FIN_ACKED)
             THEN conn_event_do_tm(t, CLOSED, e) ELSE t, events, e)
    ELSE IF "EPOLLHUP" \in events THEN tcp_rst_tm(t, e)
    ELSE IF t.events \cap SOCK_ACCEPTED # {} THEN t
    ELSE IF t.events = TAP_SYN_RCVD /\ "EPOLLOUT" \in events
    THEN tcp_connect_finish_tm(t, so_err, e)
    ELSE t

\* tcp_timer_handler(), the activity timeout: old is what timerfd_settime()
\* returns of the previous setting, that is the time that was left
tcp_timer_handler_tm_act(t, old, e) ==
    IF old.tv_sec = ACT_TIMEOUT
    THEN [tcp_rst_tm(t, e) EXCEPT !.last = "activity"]
    ELSE [t EXCEPT !.last = "timer_set"]

\* tcp_timer_handler(), ACK_FROM_TAP_DUE set
tcp_timer_handler_tm_ack(t, e) ==
    IF t.events \cap ESTABLISHED = {}
    THEN [tcp_rst_tm(t, e) EXCEPT !.last = "handshake"]
    ELSE IF CONN_HAS(t, SOCK_FIN_SENT \cup TAP_FIN_ACKED)
    THEN [tcp_rst_tm(t, e) EXCEPT !.last = "fin_timeout"]
    ELSE IF t.retrans = TCP_MAX_RETRANS
    THEN [tcp_rst_tm(t, e) EXCEPT !.last = "max_retrans"]
    ELSE [tcp_timer_ctl_tm(
              tcp_data_from_sock_tm(
                  [t EXCEPT !.retrans = @ + 1, !.unacked = FALSE], e), e)
            EXCEPT !.last = "retry"]

tcp_timer_handler_tm(t, e) ==
    IF timerfd_gettime(t) # [tv_sec |-> 0, tv_nsec |-> 0]
    THEN [t EXCEPT !.last = "discard"]
    ELSE IF t.flags \cap ACK_TO_TAP_DUE # {}
    THEN [tcp_timer_ctl_tm(tcp_send_flag_tm(t, {}, e), e) EXCEPT !.last = "ack_to_tap"]
    ELSE IF t.flags \cap ACK_FROM_TAP_DUE # {}
    THEN tcp_timer_handler_tm_ack(t, e)
    ELSE tcp_timer_handler_tm_act(
             timerfd_settime(t, [tv_sec |-> ACT_TIMEOUT, tv_nsec |-> 0],
                             "tcp_timer_handler"),
             timerfd_gettime(t), e)

\* No connection yet
TmrStart ==
    [events |-> CLOSED, flags |-> {}, timer |-> -1, left |-> 0, expired |-> FALSE,
     set |-> [tv_sec |-> 0, tv_nsec |-> 0], by |-> "none",
     at |-> [flags |-> {}, events |-> CLOSED], retrans |-> 0,
     ack_due |-> FALSE, unacked |-> FALSE, hs |-> 0, dead |-> FALSE,
     last |-> "none", ret |-> 0]

TmrInit == tmr = TmrStart

(***************************************************************************)
(* The bytes tcp_data_from_tap() gathers from a batch of segments of the   *)
(* guest and hands to sendmsg(), and what it records once sendmsg()        *)
(* returned                                                                *)
(***************************************************************************)
\* Segments in a batch and bytes of a segment
MaxDftBatch == 3

MaxDftLen == 2

\* Bits of size_t beyond those of a sequence number (32 in the program)
SizeBits == SeqBits + 2

\* SSIZE_MAX: sendmsg() fails with EINVAL for a longer entry
SSIZE_MAX == 2 ^ (SizeBits - 1) - 1

\* Iterations after which the scan of a batch is cut in the model
MaxScan == 12

\* Mutant: the whole segment is handed to the socket
tcp_data_from_tap_iov_whole(i, seg, seq_from_tap) ==
    [seg |-> i, off |-> 0, iov_len |-> seg.len]
\* The entry of tcp_iov for segment i of the batch that is neither discarded
\* nor kept: iov_base is data + seq_offset, given as segment and offset, and
\* iov_len is len - seq_offset in size_t
tcp_data_from_tap_iov(i, seg, seq_from_tap) ==
    [seg |-> i, off |-> (seq_from_tap - seg.seq) % SeqMod,
     iov_len |-> (seg.len - ((seq_from_tap - seg.seq) % SeqMod)) % (2 ^ SizeBits)]

\* The loop of tcp_data_from_tap() over the batch p (segments without RST):
\* r.i is the segment looked at, r.keep the first segment beyond seq_from_tap
\* (0: none, -1 in the program), r.iov the entries of tcp_iov, r.visits the
\* iterations made
RECURSIVE tcp_data_from_tap_scan(_, _)
tcp_data_from_tap_scan(p, r) ==
    IF r.i > Len(p) THEN r
    ELSE IF r.visits >= MaxScan THEN [r EXCEPT !.cut = TRUE]
    ELSE IF p[r.i].len = 0
    THEN tcp_data_from_tap_scan(
             p, [r EXCEPT !.i = @ + 1, !.visits = @ + 1,
                          !.fin = @ \/ p[r.i].fin])
    ELSE IF /\ SEQ_GE((r.seq_from_tap - p[r.i].seq) % SeqMod, 0)
            /\ SEQ_LE((p[r.i].seq + p[r.i].len) % SeqMod, r.seq_from_tap)
    THEN tcp_data_from_tap_scan(
             p, [r EXCEPT !.i = @ + 1, !.visits = @ + 1,
                          !.fin = @ \/ p[r.i].fin])
    ELSE IF SEQ_LT((r.seq_from_tap - p[r.i].seq) % SeqMod, 0)
    THEN tcp_data_from_tap_scan(
             p, [r EXCEPT !.i = @ + 1, !.visits = @ + 1,
                          !.fin = @ \/ p[r.i].fin,
                          !.keep = IF @ = 0 THEN r.i ELSE @])
    ELSE tcp_data_from_tap_scan(
             p, [r EXCEPT !.i = IF r.keep # 0 /\ r.keep # r.i THEN r.keep ELSE @ + 1,
                          !.visits = @ + 1,
                          !.fin = @ \/ p[r.i].fin,
                          !.iov = Append(@, tcp_data_from_tap_iov(r.i, p[r.i],
                                                                  r.seq_from_tap)),
                          !.seq_from_tap =
                              (@ + tcp_data_from_tap_iov(r.i, p[r.i],
                                                         r.seq_from_tap).iov_len)
                              % SeqMod,
                          !.keep = IF @ = r.i THEN 0 ELSE @])

RECURSIVE tcp_iov_len(_)
tcp_iov_len(iov) == IF iov = <<>> THEN 0 ELSE Head(iov).iov_len + tcp_iov_len(Tail(iov))

\* The sequence the peer acknowledged, tcpi_bytes_acked + seq_init_from_tap:
\* e.acked bytes past d.ack0, of those sent to it
tcp_bytes_acked_seq(d, e) ==
    (d.ack0 + MinOf(e.acked, (d.seq_from_tap - d.ack0) % SeqMod)) % SeqMod

\* tcp_update_seqack_wnd(), the new seq_ack_to_tap: e.force stands for a
\* small sending buffer, a low RTT, a closing or a local connection
tcp_update_seqack_wnd_dft(d, force_seq, e) ==
    IF e.force \/ force_seq THEN d.seq_from_tap
    ELSE IF d.seq_ack_to_tap # d.seq_from_tap
    THEN IF SEQ_LT(tcp_bytes_acked_seq(d, e), d.seq_ack_to_tap)
         THEN d.seq_ack_to_tap
         ELSE tcp_bytes_acked_seq(d, e)
    ELSE d.seq_ack_to_tap

\* tcp_send_flag(), once tcp_update_seqack_wnd() gave seq_ack_to_tap and
\* told whether it or the window changed (e.wnd_new: the window differs from
\* the one last set): the frame queued carries seq_ack_to_tap, twice with
\* DUP_ACK
tcp_send_flag_dft_fill(d, flags, ack, e) ==
    IF ack = d.seq_ack_to_tap /\ ~(e.wnd_new /\ ~d.wnd_set) /\ flags = {}
    THEN [d EXCEPT !.wnd_set = TRUE]
    ELSE [d EXCEPT !.seq_ack_to_tap = ack, !.wnd_set = TRUE,
                   !.frames = @ \o (IF "DUP_ACK" \in flags
                                    THEN <<[ack |-> ack], [ack |-> ack]>>
                                    ELSE <<[ack |-> ack]>>)]

\* tcp_send_flag() of ACK_IF_NEEDED ({}), ACK or ACK and DUP_ACK on a
\* connection with an open window: getsockopt() failing closes it
tcp_send_flag_dft(d, flags, e) ==
    IF SEQ_GE(d.seq_ack_to_tap, d.seq_from_tap) /\ flags = {} THEN d
    ELSE IF e.tinfo_err THEN [d EXCEPT !.events = CLOSED, !.ret = -1]
    ELSE tcp_send_flag_dft_fill(d, flags,
                                tcp_update_seqack_wnd_dft(d, flags # {}, e), e)

\* Mutant: the FIN of the batch is recorded whatever sendmsg() took
tcp_data_from_tap_end_fin(d, r, partial_send, e) ==
    IF r.keep # 0
    THEN IF d.seq_dup_ack_approx # d.seq_from_tap % (2 ^ DupBits)
         THEN [tcp_send_flag_dft(
                   [d EXCEPT !.seq_dup_ack_approx = d.seq_from_tap % (2 ^ DupBits)],
                   {"ACK", "DUP_ACK"}, e) EXCEPT !.ret = 0]
         ELSE d
    ELSE IF r.fin
    THEN [d EXCEPT !.seq_from_tap = (@ + 1) % SeqMod,
                   !.events = conn_event_set(@, TAP_FIN_RCVD)]
    ELSE [tcp_send_flag_dft(d, {}, e) EXCEPT !.ret = 0]
\* tcp_data_from_tap(), from the label out on: r is what the loop found,
\* partial_send whether sendmsg() took less than it was given
tcp_data_from_tap_end(d, r, partial_send, e) ==
    IF r.keep # 0
    THEN IF d.seq_dup_ack_approx # d.seq_from_tap % (2 ^ DupBits)
         THEN [tcp_send_flag_dft(
                   [d EXCEPT !.seq_dup_ack_approx = d.seq_from_tap % (2 ^ DupBits)],
                   {"ACK", "DUP_ACK"}, e) EXCEPT !.ret = 0]
         ELSE d
    ELSE IF r.fin /\ ~partial_send
    THEN [d EXCEPT !.seq_from_tap = (@ + 1) % SeqMod,
                   !.events = conn_event_set(@, TAP_FIN_RCVD)]
    ELSE [tcp_send_flag_dft(d, {}, e) EXCEPT !.ret = 0]

\* tcp_data_from_tap(), sendmsg() having returned n (-1 with errno)
tcp_data_from_tap_sendmsg(d, r, n, errno, e) ==
    IF n < 0
    THEN IF errno = "EPIPE"
         THEN [tcp_send_flag_dft([d EXCEPT !.seq_from_tap = r.seq_from_tap],
                                 {"ACK"}, e) EXCEPT !.ret = -1]
         ELSE IF errno = "EAGAIN"
         THEN [tcp_send_flag_dft(d, {}, e) EXCEPT !.ret = 0]
         ELSE [d EXCEPT !.ret = -1]
    ELSE IF n < (r.seq_from_tap - d.seq_from_tap) % SeqMod
    THEN tcp_data_from_tap_end(
             tcp_send_flag_dft([d EXCEPT !.seq_from_tap = (@ + n) % SeqMod,
                                         !.partial_send = TRUE], {}, e),
             r, TRUE, e)
    ELSE tcp_data_from_tap_end([d EXCEPT !.seq_from_tap = (@ + n) % SeqMod],
                               r, FALSE, e)

\* sendmsg() of the entries iov: EINVAL if an entry is longer than SSIZE_MAX,
\* else the error e.errno if n is negative, else at most n bytes taken
tcp_data_from_tap_gather(d, r, n, e) ==
    IF r.iov = <<>> THEN tcp_data_from_tap_end([d EXCEPT !.scan = r], r, FALSE, e)
    ELSE IF \E k \in 1..Len(r.iov) : r.iov[k].iov_len > SSIZE_MAX
    THEN tcp_data_from_tap_sendmsg(
             [d EXCEPT !.scan = r, !.n = -1, !.errno = "EINVAL"],
             r, -1, "EINVAL", e)
    ELSE tcp_data_from_tap_sendmsg(
             [d EXCEPT !.scan = r, !.n = MinOf(n, tcp_iov_len(r.iov)),
                       !.errno = IF n < 0 THEN e.errno ELSE "none"],
             r, MinOf(n, tcp_iov_len(r.iov)), e.errno, e)

\* tcp_data_from_tap() of the batch p of an established connection
tcp_data_from_tap_dft(d, p, n, e) ==
    tcp_data_from_tap_gather(
        [d EXCEPT !.called = TRUE, !.calls = @ + 1, !.batch = p,
                  !.seq0 = d.seq_from_tap, !.ack0 = d.seq_ack_to_tap,
                  !.events0 = d.events, !.env = e, !.frames = <<>>,
                  !.partial_send = FALSE, !.n = 0, !.errno = "none", !.ret = 0,
                  !.wnd_set = FALSE],
        tcp_data_from_tap_scan(
            p, [i |-> 1, seq_from_tap |-> d.seq_from_tap, iov |-> <<>>,
                keep |-> 0, fin |-> FALSE, visits |-> 0, cut |-> FALSE]),
        n, e)

NoDftEnv == [tinfo_err |-> FALSE, force |-> FALSE, acked |-> 0,
             wnd_new |-> FALSE, errno |-> "EAGAIN"]

\* An established connection whose peer acknowledged all that was sent to it
DftStart(seq) ==
    [events |-> ESTABLISHED, seq_from_tap |-> seq, seq_ack_to_tap |-> seq,
     seq_dup_ack_approx |-> 0, frames |-> <<>>, partial_send |-> FALSE,
     called |-> FALSE, calls |-> 0, batch |-> <<>>, seq0 |-> seq, ack0 |-> seq,
     events0 |-> ESTABLISHED, n |-> 0, errno |-> "none", ret |-> 0,
     wnd_set |-> FALSE, env |-> NoDftEnv,
     scan |-> [i |-> 1, seq_from_tap |-> seq, iov |-> <<>>, keep |-> 0,
               fin |-> FALSE, visits |-> 0, cut |-> FALSE]]

DftInit == dft = DftStart(SeqMod - 1)

(***************************************************************************)
(* The time of the last run of the periodic timers of the flows            *)
(* (flow_timer_run, flow.c) and the difference of timestamps (util.c)      *)
(***************************************************************************)
\* Nanoseconds in a millisecond (1000000 in the program), milliseconds in a
\* second (1000 in the program) and the last second of the clock
NsPerMs == 2

MsPerSec == 4

MaxSec == 3

\* FLOW_TIMER_INTERVAL, in ms: one second
FLOW_TIMER_INTERVAL == MsPerSec

\* timespec_diff_ms()
timespec_diff_ms(a, b) ==
    IF a.tv_nsec < b.tv_nsec
    THEN (b.tv_nsec - a.tv_nsec) \div NsPerMs
         + (a.tv_sec - b.tv_sec - 1) * MsPerSec
    ELSE (a.tv_nsec - b.tv_nsec) \div NsPerMs + (a.tv_sec - b.tv_sec) * MsPerSec

\* flow_defer_handler(), up to the scan of the flow table: timer tells
\* whether the periodic timers of the flows run in this pass
flow_defer_handler_timer(f, now) ==
    IF timespec_diff_ms(now, f.flow_timer_run) >= FLOW_TIMER_INTERVAL
    THEN [f EXCEPT !.timer = TRUE, !.flow_timer_run = now,
                   !.diff = timespec_diff_ms(now, f.flow_timer_run),
                   !.prev_run = f.flow_timer_run, !.passes = 1]
    ELSE [f EXCEPT !.timer = FALSE,
                   !.diff = timespec_diff_ms(now, f.flow_timer_run),
                   !.prev_run = f.flow_timer_run, !.passes = 1]

\* flow_timer_run is zero when the program starts; now is CLOCK_MONOTONIC
FtmStart ==
    [now |-> [tv_sec |-> 0, tv_nsec |-> 0],
     flow_timer_run |-> [tv_sec |-> 0, tv_nsec |-> 0],
     prev_run |-> [tv_sec |-> 0, tv_nsec |-> 0],
     timer |-> FALSE, diff |-> 0, passes |-> 0, op |-> "init"]

FtmInit == ftm = FtmStart

\* The state outside the flow table when the program starts
AuxInit == TapInit /\ CmpInit /\ SeqsInit /\ FwdInit /\ RefInit /\ StrmInit /\ SnatInit /\ WndInit /\ DupInit /\ TapcInit /\ UdptInit /\ RebindInit /\ TmrInit /\ DftInit /\ FtmInit

\* For each part of the program outside the flow table: the variables of the
\* other parts, which its operations leave alone, and their initial state
exceptTap == <<tcpvars, cmp, seqs, fwd, ref, strm, snat, wnd, dup, tapc, udpt, rebind, tmr, dft, ftm>>

IdleButTap == InitTcpIdle /\ CmpInit /\ SeqsInit /\ FwdInit /\ RefInit /\ StrmInit /\ SnatInit /\ WndInit /\ DupInit /\ TapcInit /\ UdptInit /\ RebindInit /\ TmrInit /\ DftInit /\ FtmInit

exceptCmp == <<tcpvars, tap, seqs, fwd, ref, strm, snat, wnd, dup, tapc, udpt, rebind, tmr, dft, ftm>>

IdleButCmp == InitTcpIdle /\ TapInit /\ SeqsInit /\ FwdInit /\ RefInit /\ StrmInit /\ SnatInit /\ WndInit /\ DupInit /\ TapcInit /\ UdptInit /\ RebindInit /\ TmrInit /\ DftInit /\ FtmInit

exceptSeqs == <<tcpvars, tap, cmp, fwd, ref, strm, snat, wnd, dup, tapc, udpt, rebind, tmr, dft, ftm>>

IdleButSeqs == InitTcpIdle /\ TapInit /\ CmpInit /\ FwdInit /\ RefInit /\ StrmInit /\ SnatInit /\ WndInit /\ DupInit /\ TapcInit /\ UdptInit /\ RebindInit /\ TmrInit /\ DftInit /\ FtmInit

exceptFwd == <<tcpvars, tap, cmp, seqs, ref, strm, snat, wnd, dup, tapc, udpt, rebind, tmr, dft, ftm>>

IdleButFwd == InitTcpIdle /\ TapInit /\ CmpInit /\ SeqsInit /\ RefInit /\ StrmInit /\ SnatInit /\ WndInit /\ DupInit /\ TapcInit /\ UdptInit /\ RebindInit /\ TmrInit /\ DftInit /\ FtmInit

exceptRef == <<tcpvars, tap, cmp, seqs, fwd, strm, snat, wnd, dup, tapc, udpt, rebind, tmr, dft, ftm>>

IdleButRef == InitTcpIdle /\ TapInit /\ CmpInit /\ SeqsInit /\ FwdInit /\ StrmInit /\ SnatInit /\ WndInit /\ DupInit /\ TapcInit /\ UdptInit /\ RebindInit /\ TmrInit /\ DftInit /\ FtmInit

exceptStrm == <<tcpvars, tap, cmp, seqs, fwd, ref, snat, wnd, dup, tapc, udpt, rebind, tmr, dft, ftm>>

IdleButStrm == InitTcpIdle /\ TapInit /\ CmpInit /\ SeqsInit /\ FwdInit /\ RefInit /\ SnatInit /\ WndInit /\ DupInit /\ TapcInit /\ UdptInit /\ RebindInit /\ TmrInit /\ DftInit /\ FtmInit

exceptSnat == <<tcpvars, tap, cmp, seqs, fwd, ref, strm, wnd, dup, tapc, udpt, rebind, tmr, dft, ftm>>

IdleButSnat == InitTcpIdle /\ TapInit /\ CmpInit /\ SeqsInit /\ FwdInit /\ RefInit /\ StrmInit /\ WndInit /\ DupInit /\ TapcInit /\ UdptInit /\ RebindInit /\ TmrInit /\ DftInit /\ FtmInit

exceptWnd == <<tcpvars, tap, cmp, seqs, fwd, ref, strm, snat, dup, tapc, udpt, rebind, tmr, dft, ftm>>

IdleButWnd == InitTcpIdle /\ TapInit /\ CmpInit /\ SeqsInit /\ FwdInit /\ RefInit /\ StrmInit /\ SnatInit /\ DupInit /\ TapcInit /\ UdptInit /\ RebindInit /\ TmrInit /\ DftInit /\ FtmInit

exceptDup == <<tcpvars, tap, cmp, seqs, fwd, ref, strm, snat, wnd, tapc, udpt, rebind, tmr, dft, ftm>>

IdleButDup == InitTcpIdle /\ TapInit /\ CmpInit /\ SeqsInit /\ FwdInit /\ RefInit /\ StrmInit /\ SnatInit /\ WndInit /\ TapcInit /\ UdptInit /\ RebindInit /\ TmrInit /\ DftInit /\ FtmInit

exceptTapc == <<tcpvars, tap, cmp, seqs, fwd, ref, strm, snat, wnd, dup, udpt, rebind, tmr, dft, ftm>>

IdleButTapc == InitTcpIdle /\ TapInit /\ CmpInit /\ SeqsInit /\ FwdInit /\ RefInit /\ StrmInit /\ SnatInit /\ WndInit /\ DupInit /\ UdptInit /\ RebindInit /\ TmrInit /\ DftInit /\ FtmInit

exceptUdpt == <<tcpvars, tap, cmp, seqs, fwd, ref, strm, snat, wnd, dup, tapc, rebind, tmr, dft, ftm>>

IdleButUdpt == InitTcpIdle /\ TapInit /\ CmpInit /\ SeqsInit /\ FwdInit /\ RefInit /\ StrmInit /\ SnatInit /\ WndInit /\ DupInit /\ TapcInit /\ RebindInit /\ TmrInit /\ DftInit /\ FtmInit

exceptRebind == <<tcpvars, tap, cmp, seqs, fwd, ref, strm, snat, wnd, dup, tapc, udpt, tmr, dft, ftm>>

IdleButRebind == InitTcpIdle /\ TapInit /\ CmpInit /\ SeqsInit /\ FwdInit /\ RefInit /\ StrmInit /\ SnatInit /\ WndInit /\ DupInit /\ TapcInit /\ UdptInit /\ TmrInit /\ DftInit /\ FtmInit

exceptTmr == <<tcpvars, tap, cmp, seqs, fwd, ref, strm, snat, wnd, dup, tapc, udpt, rebind, dft, ftm>>

IdleButTmr == InitTcpIdle /\ TapInit /\ CmpInit /\ SeqsInit /\ FwdInit /\ RefInit /\ StrmInit /\ SnatInit /\ WndInit /\ DupInit /\ TapcInit /\ UdptInit /\ RebindInit /\ DftInit /\ FtmInit

exceptDft == <<tcpvars, tap, cmp, seqs, fwd, ref, strm, snat, wnd, dup, tapc, udpt, rebind, tmr, ftm>>

IdleButDft == InitTcpIdle /\ TapInit /\ CmpInit /\ SeqsInit /\ FwdInit /\ RefInit /\ StrmInit /\ SnatInit /\ WndInit /\ DupInit /\ TapcInit /\ UdptInit /\ RebindInit /\ TmrInit /\ FtmInit

exceptFtm == <<tcpvars, tap, cmp, seqs, fwd, ref, strm, snat, wnd, dup, tapc, udpt, rebind, tmr, dft>>

IdleButFtm == InitTcpIdle /\ TapInit /\ CmpInit /\ SeqsInit /\ FwdInit /\ RefInit /\ StrmInit /\ SnatInit /\ WndInit /\ DupInit /\ TapcInit /\ UdptInit /\ RebindInit /\ TmrInit /\ DftInit

(***************************************************************************)
(* The program's state as a handler's context, and back                    *)
(***************************************************************************)
Ctx ==
    [tab |-> flowtab, first |-> flow_first_free, hash |-> tc_hash,
     fds |-> open_fds, epoll |-> epoll, closed |-> was_closed, abort |-> FALSE,
     ret |-> 0]

Commit(c, name, idx) ==
    /\ flowtab' = c.tab
    /\ flow_first_free' = c.first
    /\ tc_hash' = c.hash
    /\ open_fds' = c.fds
    /\ epoll' = c.epoll
    /\ was_closed' = c.closed
    /\ aborted' = c.abort
    /\ op' = [name |-> name, idx |-> idx]
    /\ UNCHANGED <<hash_secret, aux>>

(***************************************************************************)
(* The flow table on its own: flows of the types whose deferred hooks are  *)
(* not part of tcp.c are allocated, cancelled and expired in any order.    *)
(***************************************************************************)
OpaqueTypes == {FLOW_TCP_SPLICE, FLOW_PING4}

ActiveIdx(tab) == {i \in FlowIdx : tab[i].type # FLOW_TYPE_NONE}

InitFlow ==
    /\ InitTables
    /\ AuxInit
    /\ hash_secret = [k \in Keys |-> 0]

\* A handler allocates a slot and starts a flow in it (FLOW_START());
\* nothing happens when the table is full
FlowNew(type) ==
    /\ ~aborted
    /\ LET r == flow_alloc(flow_first_free, flowtab) IN
       /\ aborted' = r.abort
       /\ flow_first_free' = r.first
       /\ flowtab' = IF r.idx = NULL THEN r.tab
                     ELSE [r.tab EXCEPT ![r.idx] = flow_start(@, type)]
       /\ op' = [name |-> "alloc", idx |-> r.idx]
    /\ UNCHANGED <<epoll, tc_hash, hash_secret, open_fds, was_closed, aux>>

\* A handler allocates a slot and gives it back with flow_alloc_cancel(),
\* before or after FLOW_START()
FlowNewCancel(type, started) ==
    /\ ~aborted
    /\ LET r == flow_alloc(flow_first_free, flowtab) IN
       /\ r.idx # NULL
       /\ LET tab1 == IF started
                      THEN [r.tab EXCEPT ![r.idx] = flow_start(@, type)]
                      ELSE r.tab
              c == flow_alloc_cancel(r.first, tab1, r.idx)
          IN  /\ aborted' = (r.abort \/ c.abort)
              /\ flow_first_free' = c.first
              /\ flowtab' = c.tab
              /\ op' = [name |-> "alloc_cancel", idx |-> r.idx]
    /\ UNCHANGED <<epoll, tc_hash, hash_secret, open_fds, was_closed, aux>>

\* The deferred pass at the end of an iteration of the main loop
FlowDefer(timer, expired) ==
    /\ ~aborted
    /\ LET st == flow_defer_handler(flow_first_free, flowtab, open_fds, epoll,
                                    timer, expired) IN
       /\ aborted' = st.abort
       /\ flow_first_free' = st.first
       /\ flowtab' = st.tab
       /\ open_fds' = st.fds
       /\ epoll' = st.epoll
       /\ was_closed' = was_closed \cap ActiveIdx(st.tab)
       /\ op' = [name |-> "defer", idx |-> NULL]
    /\ UNCHANGED <<tc_hash, hash_secret, aux>>

NextFlow ==
    \/ \E type \in OpaqueTypes : FlowNew(type)
    \/ \E type \in OpaqueTypes, started \in BOOLEAN : FlowNewCancel(type, started)
    \/ \E timer \in BOOLEAN, expired \in SUBSET ActiveIdx(flowtab) :
          FlowDefer(timer, expired)

SpecFlow == InitFlow /\ [][NextFlow]_vars

(***************************************************************************)
(* One connection at a time, with every input its handlers read: segments  *)
(* from the tap, events of its socket and of its timer, deferred passes    *)
(***************************************************************************)
Recvs == {"stall", "err", "eagain", "eof", "nonew", "data"}

\* Inputs that make no difference are fixed: the window is updated whenever
\* there is something to acknowledge, and nothing else is read once
\* getsockopt() failed
EnvsFlag ==
    {e \in [tinfo_err : BOOLEAN, ack_noop : BOOLEAN, wnd : {"same", "upd"},
            acked : BOOLEAN, recv : {"eagain"}] :
        /\ e.wnd = (IF e.ack_noop THEN "same" ELSE "upd")
        /\ e.tinfo_err => e.acked}

Envs ==
    {[e EXCEPT !.recv = r] : e \in EnvsFlag, r \in Recvs}

DefaultIn == [valid |-> TRUE, bind |-> "remote", connect |-> "inprogress"]

Ins ==
    {i \in [valid : BOOLEAN, bind : {"ok", "local", "remote"},
            connect : {"ok", "inprogress", "err"}] :
        /\ ~i.valid => (i.bind = "remote" /\ i.connect = "inprogress")
        /\ i.bind = "ok" => i.connect = "inprogress"}

\* A batch of one segment without data
Segment(th, tapack, finacked) ==
    [th |-> th, more |-> FALSE, tapack |-> tapack, finacked |-> finacked,
     pre |-> "ok", ack |-> "ACK" \in th, fin |-> "FIN" \in th, retr |-> FALSE,
     keep |-> FALSE, dupnew |-> FALSE, send |-> "full"]

Ths == {{"SYN"}, {"SYN", "ACK"}, {"ACK"}, {"FIN", "ACK"}, {"RST"}}

\* Batches for an established connection: an ACK first, other segments
\* behind it; a duplicate ACK is sent whenever a segment is kept
Batches ==
    {p \in [th : {{"ACK"}}, more : {TRUE},
            tapack : {"all", "some", "old"}, finacked : BOOLEAN,
            pre : {"bad", "rst", "ok"}, ack : {TRUE}, fin : BOOLEAN,
            retr : BOOLEAN, keep : BOOLEAN, dupnew : BOOLEAN,
            send : {"full", "partial", "epipe", "eagain", "err"}] :
        /\ p.dupnew = p.keep
        /\ p.pre # "ok" => /\ ~p.retr /\ ~p.keep /\ p.send = "full"
                           /\ p.tapack = "old" /\ ~p.finacked /\ p.fin
        /\ (p.send \in {"epipe", "eagain", "err"} \/ p.keep) =>
              (~p.finacked /\ p.fin)}

\* What the timer handler finds: armed, maxretrans, or none. act_old is never
\* the case: for a timer that expired timerfd_settime() gives zero as the old
\* value, the time that was left.
Timers ==
    {t \in [armed : BOOLEAN, maxretrans : BOOLEAN, act_old : {FALSE}] :
        Cardinality({f \in {"armed", "maxretrans", "act_old"} : t[f]}) <= 1}

ConnKey == <<"remote", 1, 1>>

ConnLookup == tcp_hash_lookup(tc_hash, flowtab, ConnKey[1], ConnKey[2], ConnKey[3])

\* A SYN from the guest while no flow exists
ConnSyn(in, env) ==
    /\ ~aborted
    /\ ConnLookup = NULL
    /\ ActiveIdx(flowtab) = {}
    /\ Commit(tcp_tap_handler(Ctx, ConnKey[1], ConnKey[2], ConnKey[3],
                              Segment({"SYN"}, "old", FALSE), in, env),
              "syn", flow_first_free)

\* A single segment without data for the connection
ConnSeg(th, tapack, finacked, env) ==
    /\ ~aborted
    /\ ConnLookup # NULL
    /\ flowtab[ConnLookup].events \cap ESTABLISHED # {} => env.recv = "eagain"
    /\ "ACK" \notin th => tapack = "old" /\ ~finacked
    /\ Commit(tcp_tap_handler(Ctx, ConnKey[1], ConnKey[2], ConnKey[3],
                              Segment(th, tapack, finacked), DefaultIn, env),
              "seg", ConnLookup)

\* A batch of segments for the connection, once the handshake is done or with
\* the segment that completes it
ConnData(p, env) ==
    /\ ~aborted
    /\ ConnLookup # NULL
    /\ LET events == flowtab[ConnLookup].events IN
       \/ events \cap ESTABLISHED # {}
       \/ events = TAP_SYN_RCVD \cup TAP_SYN_ACK_SENT /\ p.more
    /\ (~p.retr /\ flowtab[ConnLookup].events \cap ESTABLISHED # {}) =>
          env.recv = "eagain"
    /\ flowtab[ConnLookup].events \cap TAP_FIN_SENT = {} => ~p.finacked
    /\ Commit(tcp_tap_handler(Ctx, ConnKey[1], ConnKey[2], ConnKey[3],
                              p, DefaultIn, env),
              "data", ConnLookup)

\* A connection to a forwarded port while no flow exists
ConnListen(saddr, env) ==
    /\ ~aborted
    /\ ActiveIdx(flowtab) = {}
    /\ Commit(tcp_listen_handler(Ctx, ConnKey[2], saddr, ConnKey[3],
                                 DefaultIn, env),
              "listen", flow_first_free)

\* The events epoll_wait() reports for a descriptor: those asked for, and
\* always EPOLLERR and EPOLLHUP
Reported(reg) ==
    (SUBSET ((reg.ev \ {"EPOLLET"}) \cup {"EPOLLERR", "EPOLLHUP"})) \ {{}}

ConnSock(fd, events, so_err, env) ==
    /\ ~aborted
    /\ epoll[fd].kind = "sock"
    /\ events \in Reported(epoll[fd])
    /\ "EPOLLERR" \in events => events = {"EPOLLERR"}
    /\ "EPOLLIN" \notin events => env.recv = "eagain"
    /\ so_err => flowtab[epoll[fd].flow].events = TAP_SYN_RCVD
    /\ Commit(tcp_sock_handler(Ctx, epoll[fd].flow, events, so_err, env),
              "sock", epoll[fd].flow)

ConnTimer(fd, t, env) ==
    /\ ~aborted
    /\ epoll[fd].kind = "timer"
    /\ t.armed => env = CHOOSE e \in Envs : TRUE
    /\ (t.maxretrans \/ t.act_old) => env.recv = "eagain"
    /\ Commit(tcp_timer_handler(Ctx, epoll[fd].flow, t, env),
              "timer", epoll[fd].flow)

EpollEvents == {"EPOLLIN", "EPOLLOUT", "EPOLLRDHUP", "EPOLLERR", "EPOLLHUP"}

NextConn ==
    \/ \E in \in Ins, env \in EnvsFlag : ConnSyn(in, env)
    \/ \E th \in Ths, tapack \in {"all", "some", "old"}, finacked \in BOOLEAN,
          env \in Envs : ConnSeg(th, tapack, finacked, env)
    \/ \E p \in Batches, env \in Envs : ConnData(p, env)
    \/ \E saddr \in {"remote", "loopback"}, env \in EnvsFlag :
          ConnListen(saddr, env)
    \/ \E fd \in Fds, events \in SUBSET EpollEvents, so_err \in BOOLEAN,
          env \in Envs : ConnSock(fd, events, so_err, env)
    \/ \E fd \in Fds, t \in Timers, env \in Envs : ConnTimer(fd, t, env)
    \/ FlowDefer(FALSE, {})

SpecConn == InitFlow /\ [][NextConn]_vars

(***************************************************************************)
(* Several connections under any hash secret: connections from the guest   *)
(* and from listening sockets, resets from either side, deferred passes    *)
(***************************************************************************)
\* The buckets keys hash to: the same one, and the ones next to it on either
\* side
HashValues == {0, 1, TCP_HASH_TABLE_SIZE - 1}

\* The table looks the same under any rotation, so one key's bucket is fixed;
\* so is the bucket of the key no connection below has
InitHash ==
    /\ InitTables
    /\ AuxInit
    /\ hash_secret \in {h \in [Keys -> HashValues] :
                         h[<<"gw", 1, 1>>] = 0 /\ h[<<"gw", 1, 2>>] = 0}

\* Nothing fails and nothing is pending in these handlers' system calls
HashEnv ==
    [tinfo_err |-> FALSE, ack_noop |-> FALSE, wnd |-> "upd", acked |-> TRUE,
     recv |-> "eagain"]

\* A SYN from the guest
HashSyn(daddr, source, dest) ==
    /\ ~aborted
    /\ Commit(tcp_tap_handler(Ctx, daddr, source, dest,
                              Segment({"SYN"}, "old", FALSE), DefaultIn, HashEnv),
              "syn", NULL)

\* A connection from saddr:sport accepted on a socket forwarding port
HashListen(port, saddr, sport) ==
    /\ ~aborted
    /\ Commit(tcp_listen_handler(Ctx, port, saddr, sport, DefaultIn, HashEnv),
              "listen", NULL)

\* A RST from the guest
HashRst(daddr, source, dest) ==
    /\ ~aborted
    /\ tcp_hash_lookup(tc_hash, flowtab, daddr, source, dest) # NULL
    /\ Commit(tcp_tap_handler(Ctx, daddr, source, dest,
                              Segment({"RST"}, "old", FALSE), DefaultIn, HashEnv),
              "rst", NULL)

\* An error on a connection's socket
HashSockErr(fd) ==
    /\ ~aborted
    /\ epoll[fd].kind = "sock"
    /\ Commit(tcp_sock_handler(Ctx, epoll[fd].flow, {"EPOLLERR"}, FALSE, HashEnv),
              "sock", NULL)

\* The guest connects to the remote host's ports; peers of any address connect
\* from one port
NextHash ==
    \/ \E source \in Eports, dest \in Fports : HashSyn("remote", source, dest)
    \/ \E port \in Eports, saddr \in Addrs : HashListen(port, saddr, 1)
    \/ \E daddr \in Faddrs, source \in Eports, dest \in Fports :
          HashRst(daddr, source, dest)
    \/ \E fd \in Fds : HashSockErr(fd)
    \/ FlowDefer(FALSE, {})

SpecHash == InitHash /\ [][NextHash]_vars

(***************************************************************************)
(* The free cluster list                                                   *)
(***************************************************************************)
\* The indices reached from flow_first_free along free.next, FLOW_MAX steps
\* at most; a link that leaves the table ends the walk
RECURSIVE ChainFrom(_, _, _)
ChainFrom(tab, idx, fuel) ==
    IF fuel = 0 \/ idx \notin FlowIdx THEN <<idx>>
    ELSE <<idx>> \o ChainFrom(tab, tab[idx].next, fuel - 1)

FreeChain == ChainFrom(flowtab, flow_first_free, FLOW_MAX)

\* The cluster heads of the chain: all but the terminator
ChainHeads == SubSeq(FreeChain, 1, Len(FreeChain) - 1)

RECURSIVE SumN(_, _)
SumN(tab, heads) ==
    IF heads = <<>> THEN 0
    ELSE tab[Head(heads)].n + SumN(tab, Tail(heads))

FreeSlots(tab) == {i \in FlowIdx : tab[i].type = FLOW_TYPE_NONE}

\* C1: the free cluster list reached from flow_first_free is strictly
\* increasing in index and ends at FLOW_MAX, and every cluster head at index
\* idx has n >= 1 and idx + n <= FLOW_MAX.
C1_FreeChainOrdered ==
    /\ ~aborted
    /\ FreeChain[Len(FreeChain)] = FLOW_MAX
    /\ \A k \in 1..(Len(FreeChain) - 1) :
          /\ FreeChain[k] < FreeChain[k + 1]
          /\ flowtab[FreeChain[k]].n >= 1
          /\ FreeChain[k] + flowtab[FreeChain[k]].n <= FLOW_MAX

\* C1 witness: after an allocation was cancelled and a flow expired, the list
\* has three clusters
C1_Witness ==
    /\ Len(FreeChain) >= 4
    /\ \E k \in 1..(Len(FreeChain) - 1) : flowtab[FreeChain[k]].n > 1
    /\ \E k \in 1..(Len(FreeChain) - 2) :
          FreeChain[k] + flowtab[FreeChain[k]].n = FreeChain[k + 1]

\* C2: the lengths of the free clusters on the chain and the number of
\* slots whose type is not FLOW_TYPE_NONE add up to FLOW_MAX.
C2_SlotsConserved ==
    SumN(flowtab, ChainHeads) + Cardinality(ActiveIdx(flowtab)) = FLOW_MAX

\* C2 witness: some slots active, several clusters, after a deferred pass
\* freed a flow
C2_Witness ==
    /\ op.name = "defer"
    /\ Len(ChainHeads) >= 2
    /\ Cardinality(ActiveIdx(flowtab)) >= 2


Min(S) == CHOOSE x \in S : \A y \in S : x <= y

LowestFree(tab) ==
    IF FreeSlots(tab) = {} THEN FLOW_MAX ELSE Min(FreeSlots(tab))

\* C3: flow_alloc returns the slot at index flow_first_free, which is the
\* lowest-indexed free slot of the whole table, and returns NULL only when
\* no slot is free (flow_first_free >= FLOW_MAX).
C3_AllocLowestFree ==
    LET r == flow_alloc(flow_first_free, flowtab) IN
    /\ flow_first_free = LowestFree(flowtab)
    /\ ~r.abort
    /\ (r.idx = NULL) <=> (FreeSlots(flowtab) = {})
    /\ (r.idx = NULL) <=> (flow_first_free >= FLOW_MAX)
    /\ r.idx # NULL => r.idx = LowestFree(flowtab)
    /\ (op.name = "alloc" /\ op.idx # NULL) =>
          /\ flowtab[op.idx].type # FLOW_TYPE_NONE
          /\ \A i \in FreeSlots(flowtab) : i > op.idx

\* C3 witness: an allocation was served from a hole below active flows, and
\* the table is now full
C3_Witness ==
    /\ op.name = "alloc"
    /\ op.idx # NULL
    /\ \E j \in ActiveIdx(flowtab) : j > op.idx
    /\ FreeSlots(flowtab) = {}

\* The slots covered by the clusters of the chain
ChainCovered(tab, heads) ==
    UNION {{i \in FlowIdx : heads[k] <= i /\ i < heads[k] + tab[heads[k]].n} :
              k \in 1..Len(heads)}

\* C4: flow_alloc immediately followed by flow_alloc_cancel on the returned
\* slot leaves the set of free slots and flow_first_free as they were before
\* the allocation, and the free chain is in order and covers exactly the
\* free slots right after the cancel.
C4_CancelRestores ==
    [][op'.name = "alloc_cancel" =>
          /\ FreeSlots(flowtab') = FreeSlots(flowtab)
          /\ flow_first_free' = flow_first_free
          /\ flow_first_free' = op'.idx
          /\ C1_FreeChainOrdered'
          /\ ChainCovered(flowtab', ChainHeads') = FreeSlots(flowtab')
          /\ C2_SlotsConserved']_vars

\* C4 witness: the cancelled slot is a cluster of one, followed by the rest
\* of the cluster it was taken from, with active flows around
C4_Witness ==
    /\ op.name = "alloc_cancel"
    /\ flowtab[op.idx].n = 1
    /\ flowtab[op.idx].next = op.idx + 1
    /\ op.idx + 1 \in FlowIdx
    /\ \E j \in ActiveIdx(flowtab) : j < op.idx
    /\ \E j \in ActiveIdx(flowtab) : j > op.idx

\* The chain is made of the maximal runs of free slots
MaximalRuns ==
    /\ ChainCovered(flowtab, ChainHeads) = FreeSlots(flowtab)
    /\ \A k \in 1..Len(ChainHeads) :
          LET idx == ChainHeads[k]
              n == flowtab[idx].n
          IN  /\ \A i \in idx..(idx + n - 1) : i \in FreeSlots(flowtab)
              /\ idx > 0 => (idx - 1) \notin FreeSlots(flowtab)
              /\ idx + n < FLOW_MAX => (idx + n) \notin FreeSlots(flowtab)

ChainHeadSet == {ChainHeads[k] : k \in 1..Len(ChainHeads)}

\* C5: after a flow_defer_handler pass the free chain consists exactly of
\* the maximal runs of free slots in ascending order, and every free slot
\* that is no cluster head has n == next == 0; with A..E allocated from an
\* empty table and B and D closed, the chain is B, D, then the tail from
\* E+1 to FLOW_MAX, and the next flow_alloc returns B.
C5_DeferRebuildsChain ==
    op.name = "defer" =>
       /\ C1_FreeChainOrdered
       /\ MaximalRuns
       /\ \A i \in FreeSlots(flowtab) \ ChainHeadSet :
             flowtab[i].n = 0 /\ flowtab[i].next = 0
       /\ ActiveIdx(flowtab) = {0, 2, 4} =>
             /\ FreeChain = <<1, 3, 5, FLOW_MAX>>
             /\ flowtab[1].n = 1 /\ flowtab[3].n = 1
             /\ flowtab[5].n = FLOW_MAX - 5
             /\ flow_alloc(flow_first_free, flowtab).idx = 1

\* C5 witness: the pass has run with A, C and E left of five flows
C5_Witness ==
    /\ op.name = "defer"
    /\ ActiveIdx(flowtab) = {0, 2, 4}
    /\ 5 \in FlowIdx

(***************************************************************************)
(* The hash table of connections                                           *)
(***************************************************************************)
\* The buckets that hold a connection
HashEntries(hash) == {b \in Buckets : flow_at_sidx(hash[b]) # NULL}

\* The flows in the table that match a key
HashMatches(k) ==
    {tc_hash[b] : b \in {x \in HashEntries(tc_hash) :
                            tcp_hash_match(flowtab[tc_hash[x]], k[1], k[2], k[3])}}

\* C6: for every (faddr, eport, fport), at most one flow present in the hash
\* table matches it, whether the flows came from the tap or from accept()
C6_OneFlowPerKey ==
    \A k \in Keys : Cardinality(HashMatches(k)) <= 1

\* No bucket is empty from the own bucket of the entry in b down to b
HashPathFull(hash, tab, b) ==
    LET h == tcp_conn_hash(tab[hash[b]]) % TCP_HASH_TABLE_SIZE IN
    \A x \in Buckets :
        mod_sub(h, x, TCP_HASH_TABLE_SIZE) < mod_sub(h, b, TCP_HASH_TABLE_SIZE)
            => flow_at_sidx(hash[x]) # NULL

\* Every entry of the table is reached from its own bucket
HashChainsIntact ==
    \A b \in HashEntries(tc_hash) : HashPathFull(tc_hash, flowtab, b)

\* tcp_hash_lookup() on the key of the entry in b returns that entry
HashLookupFinds(b) ==
    LET conn == flowtab[tc_hash[b]] IN
    tcp_hash_lookup(tc_hash, flowtab, conn.faddr, conn.eport, conn.fport)
        = tc_hash[b]

\* C7: every connection in the hash table is returned by tcp_hash_lookup()
\* on its key, whatever was removed before, and no bucket is empty between an
\* entry and its own bucket
C7_InsertedIsFound ==
    \A b \in HashEntries(tc_hash) :
        HashLookupFinds(b) /\ HashPathFull(tc_hash, flowtab, b)

\* The table after tcp_hash_remove() of the entry in b
HashRemoved(b) == tcp_hash_remove(tc_hash, flowtab, tc_hash[b])

\* The table after tcp_hash_remove() and tcp_hash_insert() of the entry in b
HashReinserted(b) == tcp_hash_insert(HashRemoved(b), flowtab, tc_hash[b])

\* The removal moved no other entry
HashRemovedInPlace(b) ==
    HashRemoved(b) = [tc_hash EXCEPT ![b] = FLOW_SIDX_NONE]

\* C8 as stated: tcp_hash_remove() then tcp_hash_insert() of a connection
\* leaves every bucket as it was, and tcp_hash_probe() finds the connection
\* in the bucket it had
C8_ReinsertIdentical ==
    \A b \in HashEntries(tc_hash) :
        /\ HashReinserted(b) = tc_hash
        /\ tcp_hash_probe(HashReinserted(b), flowtab, tc_hash[b]) = b

\* C8: tcp_hash_remove() then tcp_hash_insert() of a connection leaves the
\* same connections in the table, as many buckets in use, and the connection
\* in the bucket tcp_hash_probe() finds for it; every bucket is as it was
\* whenever the removal moved no other entry
C8_ReinsertSameEntries ==
    \A b \in HashEntries(tc_hash) :
        /\ {HashReinserted(b)[x] : x \in Buckets} = {tc_hash[x] : x \in Buckets}
        /\ Cardinality(HashEntries(HashReinserted(b)))
              = Cardinality(HashEntries(tc_hash))
        /\ HashReinserted(b)[tcp_hash_probe(HashReinserted(b), flowtab, tc_hash[b])]
              = tc_hash[b]
        /\ HashRemovedInPlace(b) =>
              /\ HashReinserted(b) = tc_hash
              /\ tcp_hash_probe(HashReinserted(b), flowtab, tc_hash[b]) = b

\* A table where the removal of one entry moves another, and the removal of
\* an entry with a neighbour in the next bucket down moves none
C8_Witness ==
    /\ \E b \in HashEntries(tc_hash) :
          ~HashRemovedInPlace(b) /\ HashReinserted(b) # tc_hash
    /\ \E b \in HashEntries(tc_hash) :
          /\ HashRemovedInPlace(b)
          /\ mod_sub(b, 1, TCP_HASH_TABLE_SIZE) \in HashEntries(tc_hash)
          /\ HashReinserted(b) = tc_hash

(***************************************************************************)
(* Events of a connection                                                  *)
(***************************************************************************)
\* The events conn_event() is called with, CLOSED apart
ConnEvents ==
    {SOCK_ACCEPTED, TAP_SYN_RCVD, ESTABLISHED, TAP_SYN_ACK_SENT, SOCK_FIN_SENT,
     TAP_FIN_RCVD, TAP_FIN_SENT, TAP_FIN_ACKED}

TcpIdx == {i \in FlowIdx : flowtab[i].type = FLOW_TCP}

\* conn->events after conn_event(c, conn, event)
EventsAfter(i, event) == conn_event_do(Ctx, i, event).tab[i].events

\* C9: a connection has at most one of SOCK_ACCEPTED, TAP_SYN_RCVD and
\* ESTABLISHED; conn_event() with one of them leaves it as the only state bit
\* (and the only event), with any other event it adds the event to the ones
\* set
C9_StateBitsExclusive ==
    \A i \in TcpIdx :
        /\ Cardinality(flowtab[i].events \cap CONN_STATE_BITS) <= 1
        /\ \A event \in ConnEvents :
              IF flowtab[i].events \cap event # {}
              THEN EventsAfter(i, event) = flowtab[i].events
              ELSE IF event \subseteq CONN_STATE_BITS
              THEN /\ EventsAfter(i, event) \cap CONN_STATE_BITS = event
                   /\ EventsAfter(i, event) = event
              ELSE EventsAfter(i, event) = flowtab[i].events \cup event

\* A segment from the tap left a connection ESTABLISHED, its earlier state
\* bit cleared, with later events on top of it
C9_Witness ==
    /\ op.name \in {"seg", "data"}
    /\ op.idx \in TcpIdx
    /\ flowtab[op.idx].events \cap CONN_STATE_BITS = ESTABLISHED
    /\ TAP_FIN_RCVD \cup SOCK_FIN_SENT \subseteq flowtab[op.idx].events

\* C10: a connection whose events became CLOSED is gone from the hash table at
\* once, and the next pass of flow_defer_handler() closes its socket and its
\* timer and frees its slot
C10_ClosedIsReaped ==
    [][/\ \A i \in was_closed' : \A b \in Buckets : tc_hash'[b] # i
       /\ op'.name = "defer" =>
             \A i \in was_closed :
                 /\ flowtab'[i].type = FLOW_TYPE_NONE
                 /\ flowtab[i].sock \notin open_fds'
                 /\ flowtab[i].timer # -1 => flowtab[i].timer \notin open_fds'
      ]_vars

(***************************************************************************)
(* The queues of frames for the tap: data read from the socket and flags   *)
(* are queued in any order, the deferred handler flushes them, and the     *)
(* writes to the tap succeed, fail or are cut short.                       *)
(***************************************************************************)
\* What the system calls of one flush of the batch iov may do
Writes(mode, iov) ==
    IF mode = MODE_PASST
    THEN [rc : {[i \in 1..Len(iov) |-> "ok"]},
          sent : -1..iov_size(iov, Len(iov)), rem : BOOLEAN]
    ELSE [rc : [1..Len(iov) -> Writevs], sent : {0}, rem : {TRUE}]

\* The flush of a full tcp4_l2_buf[] in the middle of tcp_data_from_sock():
\* every frame is written (sendmsg() takes every byte), or none is
WritesFull(mode) ==
    IF mode = MODE_PASST
    THEN [rc : {[i \in 1..TCP_FRAMES_MEM |-> "ok"]},
          sent : {-1, TCP_FRAMES_MEM * (L2Hdr + MSS)}, rem : {TRUE}]
    ELSE [rc : {[i \in 1..TCP_FRAMES_MEM |-> o] : o \in Writevs}, sent : {0},
          rem : {TRUE}]

InitTap ==
    /\ IdleButTap
    /\ \E mode \in {MODE_PASST, MODE_PASTA}, seq \in {0, SeqMod - 2} :
          tap = TapStart(mode, seq)

\* EPOLLIN on the socket: tcp_data_from_sock() queues sendlen new bytes
TapData(fill_bufs, sendlen, w0, w) ==
    /\ tap.queued + DIV_ROUND_UP(sendlen, MSS) <= MaxQueued
    /\ tap' = tcp_data_from_sock_queue(tap, fill_bufs, sendlen, w0, w)
    /\ UNCHANGED exceptTap

\* A handler sends a segment without data: tcp_send_flag()
TapFlag(flags, w) ==
    /\ tap.queued < MaxQueued
    /\ tap' = tcp_send_flag_queue(tap, flags, w)
    /\ UNCHANGED exceptTap

\* The end of an iteration of the main loop: tcp_defer_handler()
TapDefer(wf, wd) ==
    /\ tap.l2_buf # <<>> \/ tap.l2_flags_buf # <<>>
    /\ tap' = tcp_defer_handler(tap, wf, wd)
    /\ UNCHANGED exceptTap

TapFlags == {{"ACK"}, {"ACK", "DUP_ACK"}, {"FIN", "ACK"}, {"RST"}}

NextTap ==
    \/ \E fill_bufs \in 1..TCP_FRAMES(tap.mode) :
       \E sendlen \in 1..(fill_bufs * MSS) :
       \E w0 \in Writes(tap.mode, tap.l2_buf), w \in WritesFull(tap.mode) :
          TapData(fill_bufs, sendlen, w0, w)
    \/ \E flags \in TapFlags :
       \E w \in Writes(tap.mode, tcp_send_flag_buf(tap, flags).l2_flags_buf) :
          TapFlag(flags, w)
    \/ \E wf \in Writes(tap.mode, tap.l2_flags_buf),
          wd \in Writes(tap.mode, tap.l2_buf) : TapDefer(wf, wd)

SpecTap == InitTap /\ [][NextTap]_vars

\* Payload bytes of the data frames written to the tap
RECURSIVE TapDataBytes(_, _)
TapDataBytes(fd_tap, n) ==
    IF n = 0 THEN 0
    ELSE TapDataBytes(fd_tap, n - 1) + (IF fd_tap[n].kind = "data" THEN fd_tap[n].len ELSE 0)

\* C11: seq_to_tap is ahead of its initial value (and of the sequence numbers
\* taken by SYN and FIN) by exactly the payload bytes of the data frames that
\* were written to the tap: a frame that was not written does not advance it.
C11_SeqToTapOnlyWritten ==
    tap.seq_to_tap = (tap.base + TapDataBytes(tap.fd_tap, Len(tap.fd_tap))) % SeqMod

\* C16: the frames written to the tap are in the order in which they were
\* queued (a DUP_ACK frame and its copy are queued by one operation).
C16_TapOrderIsQueueOrder ==
    \A i, j \in 1..Len(tap.fd_tap) : i < j => tap.fd_tap[i].n <= tap.fd_tap[j].n

(***************************************************************************)
(* Sequence comparisons of every pair of sequence numbers at most half the *)
(* sequence space apart                                                    *)
(***************************************************************************)
InitCmp ==
    /\ IdleButCmp
    /\ \E A \in 0..(SeqMod - 1), d \in (1 - SeqMod \div 2)..(SeqMod \div 2 - 1) :
          cmp = SeqPair(A, d)

SeqCompare ==
    /\ ~cmp.done
    /\ cmp' = [cmp EXCEPT !.done = TRUE,
                          !.lt = SEQ_LT(cmp.a, cmp.b), !.le = SEQ_LE(cmp.a, cmp.b),
                          !.ge = SEQ_GE(cmp.a, cmp.b), !.gt = SEQ_GT(cmp.a, cmp.b)]
    /\ UNCHANGED exceptCmp

NextCmp == SeqCompare

SpecCmp == InitCmp /\ [][NextCmp]_vars

\* The four comparisons give the answers of the comparison of the positions
CmpAgrees ==
    /\ cmp.lt = (cmp.d > 0)
    /\ cmp.le = (cmp.d >= 0)
    /\ cmp.ge = (cmp.d <= 0)
    /\ cmp.gt = (cmp.d < 0)

\* C13 (as stated): SEQ_LT, SEQ_LE, SEQ_GE and SEQ_GT agree with the comparison
\* of the unbounded positions for every pair less than half the sequence
\* space apart.
C13_SeqCmpHalfSpace ==
    cmp.done => CmpAgrees

\* C13 (amended): they agree for every pair less than MAX_WINDOW apart, on one
\* side of the wrap or on both.
C13_SeqCmpWithinWindow ==
    (cmp.done /\ cmp.d > -MAX_WINDOW /\ cmp.d < MAX_WINDOW) => CmpAgrees

\* a is just below the wrap, b just above it, almost a window apart
C13_Witness ==
    /\ cmp.done
    /\ cmp.d = MAX_WINDOW - 1
    /\ cmp.a > cmp.b
    /\ cmp.lt /\ cmp.le /\ ~cmp.ge /\ ~cmp.gt

(***************************************************************************)
(* One established connection: segments of the guest with any              *)
(* acknowledgement number, events of the socket, expiries of the timer     *)
(***************************************************************************)
\* Handlers run on the connection in one run of the model
MaxSeqSteps == 5

\* Nothing fails, and the failures and outcomes one at a time
SeqEnvOk == [tinfo_ok |-> TRUE, noop |-> FALSE, acked |-> TRUE]

SeqOk ==
    [wnd |-> TRUE, recv |-> "data", sendlen |-> 1, flushed |-> 1, e |-> SeqEnvOk,
     consumed |-> TRUE, send |-> "ok", ack_due |-> FALSE]

SeqEnvs ==
    {SeqOk,
     [SeqOk EXCEPT !.e.tinfo_ok = FALSE], [SeqOk EXCEPT !.e.noop = TRUE],
     [SeqOk EXCEPT !.e.acked = FALSE], [SeqOk EXCEPT !.wnd = FALSE],
     [SeqOk EXCEPT !.recv = "err"], [SeqOk EXCEPT !.recv = "eagain"],
     [SeqOk EXCEPT !.recv = "eof"], [SeqOk EXCEPT !.sendlen = 0, !.flushed = 0],
     [SeqOk EXCEPT !.flushed = 0], [SeqOk EXCEPT !.sendlen = 2, !.flushed = 2],
     [SeqOk EXCEPT !.consumed = FALSE], [SeqOk EXCEPT !.send = "err"],
     [SeqOk EXCEPT !.send = "eagain"], [SeqOk EXCEPT !.ack_due = TRUE]}

\* Once the FIN of the socket was passed on to the guest the socket has
\* nothing new to read
SeqEnvsOf(s) ==
    IF TAP_FIN_SENT \subseteq s.events
    THEN {[d EXCEPT !.recv = IF @ = "data" THEN "eof" ELSE @] : d \in SeqEnvs}
    ELSE SeqEnvs

\* Acknowledgement numbers of the guest: around the last one, a window ahead
\* of it, half the sequence space ahead, behind it, and what was sent
AckSeqs(s) ==
    {(s.seq_ack_from_tap + k) % SeqMod :
        k \in {0, 1, MAX_WINDOW - 1, MAX_WINDOW, MAX_WINDOW + 1, SeqMod \div 2,
               SeqMod - 1}}
    \cup {s.seq_to_tap}

SeqSeg(ack_seq) ==
    [ack |-> TRUE, ack_seq |-> ack_seq, len |-> 0, fin |-> FALSE, rst |-> FALSE,
     wnd_same |-> TRUE]

SeqBatches(s) ==
    {<<SeqSeg(a)>> : a \in AckSeqs(s)}
    \cup {<<[SeqSeg(a) EXCEPT !.len = 1]>> : a \in {s.seq_ack_from_tap, s.seq_to_tap}}
    \cup {<<[SeqSeg(s.seq_to_tap) EXCEPT !.fin = TRUE]>>,
          <<[SeqSeg(s.seq_to_tap) EXCEPT !.ack = FALSE]>>,
          <<[SeqSeg(s.seq_to_tap) EXCEPT !.rst = TRUE]>>,
          <<SeqSeg(s.seq_ack_from_tap), SeqSeg(s.seq_ack_from_tap)>>,
          <<SeqSeg(s.seq_ack_from_tap), [SeqSeg(s.seq_ack_from_tap) EXCEPT !.wnd_same = FALSE]>>,
          <<SeqSeg(s.seq_ack_from_tap), SeqSeg((s.seq_ack_from_tap + 1) % SeqMod)>>}

InitSeq ==
    /\ IdleButSeqs
    /\ seqs = SeqStart(SeqMod - 1)

\* What a handler starts from: nothing moved yet, one more step taken
SeqStep(s) == [s EXCEPT !.moved = 0, !.steps = @ + 1]

\* Segments of the guest for the connection (it is in the hash table)
SeqTap(segs, d) ==
    /\ seqs.steps < MaxSeqSteps
    /\ ESTABLISHED \subseteq seqs.events
    /\ seqs' = [tcp_tap_handler_seq(SeqStep(seqs), segs, d) EXCEPT !.last = "tap"]
    /\ UNCHANGED exceptSeqs

\* Events of the socket of the connection
SeqSock(events, d) ==
    /\ seqs.steps < MaxSeqSteps
    /\ ESTABLISHED \subseteq seqs.events
    /\ seqs' = [tcp_sock_handler_seq(SeqStep(seqs), events, d) EXCEPT !.last = "sock"]
    /\ UNCHANGED exceptSeqs

\* The timer of the connection expires
SeqTimer(armed, act_old, d) ==
    /\ seqs.steps < MaxSeqSteps
    /\ seqs' = tcp_timer_handler_seq(SeqStep(seqs), armed, act_old, d)
    /\ UNCHANGED exceptSeqs

NextSeq ==
    \/ \E segs \in SeqBatches(seqs), d \in SeqEnvsOf(seqs) : SeqTap(segs, d)
    \/ \E events \in {{"EPOLLIN"}, {"EPOLLIN", "EPOLLRDHUP"}, {"EPOLLERR"},
                      {"EPOLLIN", "EPOLLRDHUP", "EPOLLHUP"}, {"EPOLLOUT"}},
          d \in SeqEnvsOf(seqs) : SeqSock(events, d)
    \/ \E armed \in BOOLEAN, act_old \in {FALSE}, d \in SeqEnvsOf(seqs) :
          SeqTimer(armed, act_old, d)

SpecSeq == InitSeq /\ [][NextSeq]_vars

\* C12 (as stated): every update of seq_ack_from_tap sets it to a value v with
\* SEQ_GE(v, previous value).
C12_AckFromTapSeqGe ==
    [][seqs'.seq_ack_from_tap # seqs.seq_ack_from_tap
          => SEQ_GE(seqs'.seq_ack_from_tap, seqs.seq_ack_from_tap)]_vars

\* C12 (amended): every update of seq_ack_from_tap moves it forward, by at
\* least one and at most MAX_WINDOW: SEQ_GT(v, previous value) holds, and
\* SEQ_GE(v, previous value) unless v is exactly MAX_WINDOW ahead.
C12_AckFromTapForward ==
    [][seqs'.seq_ack_from_tap # seqs.seq_ack_from_tap
          => /\ SEQ_GT(seqs'.seq_ack_from_tap, seqs.seq_ack_from_tap)
             /\ (seqs'.seq_ack_from_tap - seqs.seq_ack_from_tap) % SeqMod
                   \in 1..MAX_WINDOW
             /\ seqs'.moved = (seqs'.seq_ack_from_tap - seqs.seq_ack_from_tap) % SeqMod
             /\ (seqs'.moved # MAX_WINDOW
                   => SEQ_GE(seqs'.seq_ack_from_tap, seqs.seq_ack_from_tap))]_vars

\* An acknowledgement of the guest moved seq_ack_from_tap across the wrap
C12_Witness ==
    /\ seqs.last = "tap"
    /\ seqs.moved \in 1..(MAX_WINDOW - 1)
    /\ seqs.seq_ack_from_tap < seqs.moved

\* The timer of the connection expired and tcp_timer_handler() acted on it
TimerFired ==
    /\ seqs'.steps = seqs.steps + 1
    /\ seqs'.last \notin {"tap", "sock", "discard"}

\* ... for ACK_FROM_TAP_DUE on an established connection: the ACK timer
AckTimeout ==
    /\ TimerFired
    /\ ACK_FROM_TAP_DUE \subseteq seqs.flags
    /\ ~(ACK_TO_TAP_DUE \subseteq seqs.flags)
    /\ ESTABLISHED \subseteq seqs.events

\* One more retry: the counter goes up by one and the data is sent again from
\* what the guest acknowledged (unless reading the socket fails)
Retried ==
    /\ seqs'.retrans = seqs.retrans + 1
    /\ seqs'.resent = seqs.resent + 1
    /\ \/ seqs'.events = CLOSED
       \/ (seqs'.seq_to_tap - seqs.seq_ack_from_tap) % SeqMod \in 0..MSS

\* C15 (as stated): when the ACK timer of an established connection expires
\* with retrans = TCP_MAX_RETRANS the connection is reset, RST to the tap and
\* CLOSED; otherwise retrans goes up by one and the data is queued again from
\* seq_ack_from_tap; the retries without a new acknowledgement never exceed
\* TCP_MAX_RETRANS.
C15_RetransThenRst ==
    /\ [](seqs.retrans <= TCP_MAX_RETRANS /\ seqs.resent <= TCP_MAX_RETRANS)
    /\ [][AckTimeout
            => IF seqs.retrans = TCP_MAX_RETRANS
               THEN seqs'.events = CLOSED /\ seqs'.rst
               ELSE Retried]_vars

\* C15 (amended): as stated, except that the connection is CLOSED without a
\* RST when getsockopt(TCP_INFO) fails in tcp_send_flag(), and that a
\* connection with SOCK_FIN_SENT and TAP_FIN_ACKED is reset at the first
\* expiry (FIN timeout), whatever retrans is.
C15_RetransBounded ==
    /\ [](seqs.retrans <= TCP_MAX_RETRANS /\ seqs.resent <= TCP_MAX_RETRANS)
    /\ [][AckTimeout
            => IF seqs.retrans = TCP_MAX_RETRANS
                  \/ CONN_HAS(seqs, SOCK_FIN_SENT \cup TAP_FIN_ACKED)
               THEN seqs'.events = CLOSED /\ (seqs'.rst \/ seqs'.ret = -1)
               ELSE Retried]_vars

\* The connection was retried TCP_MAX_RETRANS times, then reset with a RST
C15_Witness ==
    /\ seqs.last = "max_retrans"
    /\ seqs.retrans = TCP_MAX_RETRANS
    /\ seqs.resent = TCP_MAX_RETRANS
    /\ seqs.events = CLOSED
    /\ seqs.rst

\* The event mask registered with epoll for the socket of connection i
SockMask(i) ==
    IF flowtab[i].sock \in Fds /\ epoll[flowtab[i].sock].kind = "sock"
          /\ epoll[flowtab[i].sock].flow = i
    THEN epoll[flowtab[i].sock].ev
    ELSE {}

\* C14 (as stated): a connection with STALLED has a mask that includes
\* EPOLLIN | EPOLLOUT | EPOLLRDHUP | EPOLLET; a connection with TAP_FIN_SENT
\* and without STALLED has the mask EPOLLET alone.
C14_MaskOfStalledAndFinSent ==
    \A i \in TcpIdx :
        /\ STALLED \subseteq flowtab[i].flags
              => {"EPOLLIN", "EPOLLOUT", "EPOLLRDHUP", "EPOLLET"} \subseteq SockMask(i)
        /\ (TAP_FIN_SENT \subseteq flowtab[i].events
              /\ ~(STALLED \subseteq flowtab[i].flags))
              => SockMask(i) = {"EPOLLET"}

\* C14 (amended): of an established connection, the mask registered for the
\* socket is EPOLLET alone once TAP_FIN_SENT is set, whether or not STALLED is
\* set, and is EPOLLIN|EPOLLOUT|EPOLLRDHUP|EPOLLET when STALLED is set and
\* TAP_FIN_SENT is not.
C14_MaskOfEstablished ==
    \A i \in TcpIdx :
        ESTABLISHED \subseteq flowtab[i].events =>
            /\ TAP_FIN_SENT \subseteq flowtab[i].events
                  => SockMask(i) = {"EPOLLET"}
            /\ (STALLED \subseteq flowtab[i].flags
                  /\ ~(TAP_FIN_SENT \subseteq flowtab[i].events))
                  => SockMask(i) = {"EPOLLIN", "EPOLLOUT", "EPOLLRDHUP", "EPOLLET"}

\* An established, stalled connection without TAP_FIN_SENT is registered with
\* the full mask.
C14_Witness ==
    \E i \in TcpIdx :
        /\ ESTABLISHED \subseteq flowtab[i].events
        /\ STALLED \subseteq flowtab[i].flags
        /\ ~(TAP_FIN_SENT \subseteq flowtab[i].events)
        /\ SockMask(i) = {"EPOLLIN", "EPOLLOUT", "EPOLLRDHUP", "EPOLLET"}


\* ---------------------------------------------------------------------
\* SpecFwd: one port option, the reverse map, datagrams in both directions
\* ---------------------------------------------------------------------

PortRanges == {r \in [first : Ports, last : Ports] : r.first <= r.last}

FwdChunks ==
    {[of |-> o.first, ol |-> o.last, mapped |-> FALSE, mf |-> 0, ml |-> 0] :
        o \in PortRanges}
    \cup {[of |-> o.first, ol |-> o.last, mapped |-> TRUE, mf |-> t.first, ml |-> t.last] :
        o \in PortRanges, t \in PortRanges}

FwdExcludes == {{}} \cup {{p} : p \in Ports}

FwdOpts ==
    {[kind |-> "none", exclude |-> {}, chunks |-> <<>>, fail |-> -1]}
    \cup [kind : {"spec"}, exclude : FwdExcludes,
          chunks : UNION {[1 .. n -> FwdChunks] : n \in 0 .. MaxChunks},
          fail : {-1} \cup Ports]

InitFwd == IdleButFwd /\ fwd = FwdStart

\* conf(): one -u / -U option
ConfPorts ==
    /\ fwd.phase = "conf"
    /\ \E opt \in FwdOpts :
           fwd' = [conf_ports(fwd, opt) EXCEPT
                      !.phase = IF @ = "died" THEN "died" ELSE "parsed"]
    /\ UNCHANGED exceptFwd

\* udp_init()
UdpInit ==
    /\ fwd.phase \in {"conf", "parsed"}
    /\ fwd' = [udp_invert_portmap(fwd) EXCEPT !.phase = "ready"]
    /\ UNCHANGED exceptFwd

\* a datagram to a forwarded port and the reply to it
UdpRoundTrip ==
    /\ fwd.phase = "ready"
    /\ \E p \in fwd.map :
           fwd' = [fwd EXCEPT !.port = p,
                              !.dst = udp_fwd_dstport(fwd, p),
                              !.back = udp_fwd_srcport(fwd, udp_fwd_dstport(fwd, p))]
    /\ UNCHANGED exceptFwd

NextFwd == ConfPorts \/ UdpInit \/ UdpRoundTrip

SpecFwd == InitFwd /\ [][NextFwd]_vars

\* C17: once the reverse map is computed, every forwarded port p has
\* rdelta[(p + delta[p]) mod NUM_PORTS] = (NUM_PORTS - delta[p]) mod NUM_PORTS,
\* and a datagram to p and its reply map p back to p.
C17_ReverseMapInverts ==
    fwd.phase = "ready" =>
        /\ \A p \in fwd.map :
               fwd.rdelta[in_port_t(p + fwd.delta[p])]
                   = in_port_t(NUM_PORTS - fwd.delta[p])
        /\ fwd.port # -1 => fwd.back = fwd.port

\* ---------------------------------------------------------------------
\* SpecRef: sockets and timers are opened, registered, dispatched and closed
\* ---------------------------------------------------------------------

InitRef == IdleButRef /\ \E signed \in BOOLEAN : ref = RefStart(signed)

\* what socket(), accept4() or timerfd_create() may return
RefNewFds == IF Cardinality(ref.open) < MaxOpen THEN (KernelFds \ ref.open) \cup {-1}
             ELSE {-1}

RefSocks == {k.fd : k \in {h \in ref.kept : h.table = "tcp_tap_conn.sock"}}

\* tcp_sock_init_af()
RefSockInit ==
    /\ \E fd \in RefNewFds, fail \in {"none", "bind", "listen", "epoll_ctl"},
          auto \in BOOLEAN :
           ref' = tcp_sock_init_af(ref, fd, fail, auto)
    /\ UNCHANGED exceptRef

\* tcp_conn_from_tap()
RefConnFromTap ==
    /\ \E fd \in RefNewFds : ref' = tcp_conn_from_tap_sock(tcp_conn_new_sock(ref, fd))
    /\ UNCHANGED exceptRef

\* udp_splice_new()
RefSpliceNew ==
    /\ \E fd \in RefNewFds, fail \in {"none", "bind"} :
           ref' = udp_splice_new(ref, fd, fail)
    /\ UNCHANGED exceptRef

\* tcp_timer_ctl()
RefTimerCtl ==
    /\ \E sock \in RefSocks, fd \in RefNewFds, fail \in {"none", "epoll_ctl"} :
           /\ ~\E g \in ref.regs : g.type = "EPOLL_TYPE_TCP_TIMER" /\ g.val = sock
           /\ ref' = tcp_timer_ctl_fd(ref, sock, fd, fail)
    /\ UNCHANGED exceptRef

\* tcp_listen_handler(): accept4() fails on a descriptor that is not open
RefListen ==
    /\ \E g \in ref.regs, s \in RefNewFds, valid \in BOOLEAN :
           /\ g.type = "EPOLL_TYPE_TCP_LISTEN"
           /\ g.read \notin ref.open => s = -1
           /\ ref' = tcp_listen_handler_fd(ref, g, s, valid)
    /\ UNCHANGED exceptRef

\* udp_buf_sock_handler()
RefUdpSock ==
    /\ \E g \in ref.regs :
           /\ g.type = "EPOLL_TYPE_UDP"
           /\ ref' = udp_buf_sock_handler_fd(ref, g)
    /\ UNCHANGED exceptRef

\* tcp_flow_defer()
RefFlowDefer ==
    /\ \E sock \in RefSocks : ref' = tcp_flow_defer_fd(ref, sock)
    /\ UNCHANGED exceptRef

NextRef ==
    \/ RefSockInit
    \/ RefConnFromTap
    \/ RefSpliceNew
    \/ RefTimerCtl
    \/ RefListen
    \/ RefUdpSock
    \/ RefFlowDefer

SpecRef == InitRef /\ [][NextRef]_vars

\* C18: a descriptor above FD_REF_MAX returned by socket() or accept4() is
\* closed at once, is not registered with epoll, is kept by no flow or port
\* table, and the caller sees EIO.
C18_FdAboveMaxRefused ==
    (ref.sys \in {"socket", "accept4"} /\ ref.got > FD_REF_MAX) =>
        /\ ref.got \notin ref.open
        /\ ~\E g \in ref.regs : g.fd = ref.got
        /\ ~\E k \in ref.kept : k.fd = ref.got
        /\ ref.ret = "EIO"

\* C19: a descriptor in 0 .. FD_REF_MAX stored in the fd field of an epoll
\* reference is read back unchanged by the handler of the event.
C19_RefFdReadBack ==
    ref.disp.val \in 0 .. FD_REF_MAX => ref.disp.read = ref.disp.val

\* ---------------------------------------------------------------------
\* SpecStrm: the guest writes frames, tap_handler_passt() reads the stream
\* ---------------------------------------------------------------------

\* Frames the guest sends in one run
MaxFrames == 3

\* Most recv() calls of one run of the handler that return less than asked
MaxSplits == 2

GuestFrames ==
    {<<>>, <<ETH_P_IP>>, <<ETH_P_IPV6>>, <<ETH_P_IP, 0>>, <<ETH_P_IPV6, 3>>,
     <<0, 1>>, <<ETH_P_ARP, 1, 1>>}

StrmOracles == UNION {[1 .. n -> 1 .. TAP_BUF_FILL] : n \in 0 .. MaxSplits}

InitStrm == IdleButStrm /\ strm = StrmStart

\* the guest writes one frame to the socket
GuestSend ==
    /\ ~strm.reset
    /\ Len(strm.sent) < MaxFrames
    /\ \E f \in GuestFrames :
           strm' = [strm EXCEPT !.sent = Append(@, f), !.wire = @ \o FrameBytes(f)]
    /\ UNCHANGED exceptStrm

\* tap_handler_passt() on EPOLLIN, for one way recv() splits the stream; a run
\* in which the blocking recv() finds nothing happens once the guest wrote more
TapHandlerPasst ==
    /\ ~strm.reset
    /\ strm.wire # <<>>
    /\ \E oracle \in StrmOracles :
           /\ ~tap_handler_passt(StrmCall(strm, oracle), {"EPOLLIN"}).blocked
           /\ strm' = StrmRet(tap_handler_passt(StrmCall(strm, oracle), {"EPOLLIN"}))
    /\ UNCHANGED exceptStrm

\* tap_handler_passt() on EPOLLRDHUP, EPOLLHUP or EPOLLERR
TapHandlerReset ==
    /\ ~strm.reset
    /\ \E ev \in {"EPOLLRDHUP", "EPOLLHUP", "EPOLLERR"} :
           strm' = StrmRet(tap_handler_passt(StrmCall(strm, <<>>), {ev}))
    /\ UNCHANGED exceptStrm

NextStrm == GuestSend \/ TapHandlerPasst \/ TapHandlerReset

SpecStrm == InitStrm /\ [][NextStrm]_vars

IsFor4(f) ==
    Len(f) >= EthHdrLen /\ Len(f) <= ETH_MAX_MTU /\ f[1] \in {ETH_P_ARP, ETH_P_IP}

IsFor6(f) == Len(f) >= EthHdrLen /\ Len(f) <= ETH_MAX_MTU /\ f[1] = ETH_P_IPV6

\* C20: however recv() splits the stream, the handler is at a frame boundary
\* whenever it returns, and the frames before that boundary were handed to
\* the L2 handlers once each, with their bytes.
C20_FramesHandedOnce ==
    ~strm.reset =>
        \E k \in 0 .. Len(strm.sent) :
            /\ strm.wire = StreamBytes(SeqDrop(strm.sent, k))
            /\ strm.handed4 = SelectSeq(SubSeq(strm.sent, 1, k), IsFor4)
            /\ strm.handed6 = SelectSeq(SubSeq(strm.sent, 1, k), IsFor6)

\* ---------------------------------------------------------------------
\* SpecSnat: the peer address of an accepted connection is translated
\* ---------------------------------------------------------------------

InitSnat == IdleButSnat /\ \E c \in SnatConfigs : snat = SnatStart(c)

\* tcp_tap_conn_from_sock(): the address of the peer, translated
SnatAccepted ==
    /\ \E sa \in InanyAddrs :
           snat' = [snat EXCEPT !.from = sa, !.before = sa,
                                !.faddr = tcp_snat_inbound_inany(snat.c, sa),
                                !.times = 1]
    /\ UNCHANGED exceptSnat

\* tcp_snat_inbound() once more, on the address it returned
SnatAgain ==
    /\ snat.times = 1
    /\ snat' = [snat EXCEPT !.before = snat.faddr,
                            !.faddr = tcp_snat_inbound_inany(snat.c, snat.faddr),
                            !.times = 2]
    /\ UNCHANGED exceptSnat

NextSnat == SnatAccepted \/ SnatAgain

SpecSnat == InitSnat /\ [][NextSnat]_vars

\* C27: tcp_snat_inbound() applied to an address it has already rewritten
\* leaves the address unchanged, for IPv4 and IPv6 and every configuration.
C27_SnatIdempotent == snat.times = 2 => snat.faddr = snat.before

\* An IPv6 address was rewritten to another one, then translated again.
C27_Witness ==
    /\ snat.times = 2
    /\ ~snat.from.v4
    /\ snat.before # snat.from
    /\ snat.before.a \in {snat.c.addr_seen6, snat.c.addr6}

\* C28: a connection whose events became CLOSED keeps events = CLOSED until
\* the deferred pass frees its slot, whatever else the handler that closed it
\* goes on to do.
C28_ClosedAbsorbing == \A i \in was_closed : flowtab[i].events = CLOSED

(***************************************************************************)
(* SpecFull: flows of other protocols fill the table while the guest sends *)
(* SYN segments and peers connect to forwarded ports                       *)
(***************************************************************************)
\* A SYN from the guest for which no connection exists
FullSyn(daddr, source, dest) ==
    /\ ~aborted
    /\ tcp_hash_lookup(tc_hash, flowtab, daddr, source, dest) = NULL
    /\ Commit(tcp_tap_handler(Ctx, daddr, source, dest,
                              Segment({"SYN"}, "old", FALSE), DefaultIn, HashEnv),
              "syn", flow_alloc(flow_first_free, flowtab).idx)

\* A connection from saddr:sport is pending on a socket forwarding port
FullListen(port, saddr, sport) ==
    /\ ~aborted
    /\ Commit(tcp_listen_handler(Ctx, port, saddr, sport, DefaultIn, HashEnv),
              "listen", flow_alloc(flow_first_free, flowtab).idx)

NextFull ==
    \/ FlowNew(FLOW_PING4)
    \/ \E expired \in {{}} \cup {{i} : i \in ActiveIdx(flowtab)} :
          FlowDefer(FALSE, expired)
    \/ \E source \in Eports, dest \in Fports : FullSyn("remote", source, dest)
    \/ \E saddr \in {"remote", "loopback"} : FullListen(1, saddr, 1)

SpecFull == InitFlow /\ [][NextFull]_vars

\* C25: with no free slot flow_alloc() returns NULL, and a SYN from the tap
\* for a new connection or a connection pending on a listening socket leaves
\* the flow table, the free chain, the hash table, the descriptors and the
\* epoll list as they are.
C25_FullTableNoFlow ==
    [][(FreeSlots(flowtab) = {} /\ op'.name \in {"syn", "listen"}) =>
          /\ flow_alloc(flow_first_free, flowtab).idx = NULL
          /\ op'.idx = NULL
          /\ flowtab' = flowtab
          /\ flow_first_free' = flow_first_free
          /\ tc_hash' = tc_hash
          /\ open_fds' = open_fds
          /\ epoll' = epoll
      ]_vars

\* A SYN or a pending connection found the table full, a TCP connection
\* being among its flows
C25_Witness ==
    /\ op.name \in {"syn", "listen"}
    /\ op.idx = NULL
    /\ FreeSlots(flowtab) = {}
    /\ \E i \in FlowIdx : flowtab[i].type = FLOW_TCP

\* C29: the data frames queued between two flushes carry consecutive,
\* non-overlapping sequence ranges starting at seq_to_tap: when nothing but
\* data frames was queued since the last flush the first one starts at
\* seq_to_tap, and a data frame queued right after another one starts where
\* that one ends, also when tcp_data_from_sock() ran more than once.
C29_QueuedRangesConsecutive ==
    /\ (tap.l2_buf # <<>> /\ tap.l2_buf[Len(tap.l2_buf)].n = tap.queued
        /\ \A k \in 1..(Len(tap.l2_buf) - 1) :
              tap.l2_buf[k + 1].n = tap.l2_buf[k].n + 1)
       => tap.l2_buf[1].seq = tap.seq_to_tap
    /\ \A k \in 1..(Len(tap.l2_buf) - 1) :
          tap.l2_buf[k + 1].n = tap.l2_buf[k].n + 1
          => tap.l2_buf[k + 1].seq = (tap.l2_buf[k].seq + tap.l2_buf[k].len) % SeqMod

\* C30: whenever control is back in the event loop, every TCP connection
\* that is not CLOSED has a timer (which tcp_timer_ctl() arms with one of
\* ACK_INTERVAL, SYN_TIMEOUT, ACK_TIMEOUT, FIN_TIMEOUT, ACT_TIMEOUT as soon as
\* it exists), so that a connection whose guest and peer stay silent is
\* reset when it expires.
C30_OpenConnHasTimer ==
    \A i \in FlowIdx :
       (flowtab[i].type = FLOW_TCP /\ flowtab[i].events # CLOSED)
       => flowtab[i].timer # -1


(***************************************************************************)
(* The window advertised to the guest while the window of the peer closes  *)
(* and opens again                                                         *)
(***************************************************************************)
WndEnvs == [tinfo_err : BOOLEAN, rtt_low : BOOLEAN, sndbuf : 1..MaxSndBuf]

InitWnd ==
    /\ IdleButWnd
    /\ \E local \in BOOLEAN, snd_wnd \in 0..MaxSndWnd : wnd = WndStart(local, snd_wnd)

\* The peer advertises another window to the kernel
WndPeerWindow(v) ==
    /\ ~wnd.closed
    /\ v # wnd.tcpi_snd_wnd
    /\ wnd' = [wnd EXCEPT !.tcpi_snd_wnd = v]
    /\ UNCHANGED exceptWnd

\* The peer acknowledges one more byte written to the socket
WndPeerAck ==
    /\ ~wnd.closed
    /\ wnd.tcpi_bytes_acked < wnd.seq_from_tap
    /\ wnd' = [wnd EXCEPT !.tcpi_bytes_acked = @ + 1]
    /\ UNCHANGED exceptWnd

\* A segment of the guest with n bytes of data: tcp_tap_handler()
WndFromTap(n, e) ==
    /\ ~wnd.closed
    /\ wnd.seq_from_tap + n <= MaxFromTap
    /\ wnd' = tcp_tap_handler_it(wnd, n, e)
    /\ UNCHANGED exceptWnd

\* EPOLLOUT on the socket, or data queued by tcp_data_from_sock():
\* tcp_update_seqack_wnd(c, conn, 0, NULL)
WndSockUpdate(e) ==
    /\ ~wnd.closed
    /\ wnd' = tcp_update_seqack_wnd_tinfo(wnd, FALSE, FALSE, e)
    /\ UNCHANGED exceptWnd

\* The timer of the connection expires: tcp_timer_handler()
WndTimer(act_old, e) ==
    /\ ~wnd.closed
    /\ wnd.timer # "none"
    /\ act_old => wnd.timer = "ACT_TIMEOUT"
    /\ wnd' = tcp_timer_handler_it(wnd, act_old, e)
    /\ UNCHANGED exceptWnd

NextWnd ==
    \/ \E v \in 0..MaxSndWnd : WndPeerWindow(v)
    \/ WndPeerAck
    \/ \E n \in 0..1, e \in WndEnvs : WndFromTap(n, e)
    \/ \E e \in WndEnvs : WndSockUpdate(e)
    \/ \E act_old \in {FALSE}, e \in WndEnvs : WndTimer(act_old, e)

SpecWnd == InitWnd /\ [][NextWnd]_vars

\* C23: a window of zero for the guest comes with ACK_TO_TAP_DUE, and once
\* the window of the peer is open again the timer of the connection, set to
\* ACK_INTERVAL, is there to send the ACK that carries the new window.
C23_ZeroWindowAckDue ==
    (~wnd.closed /\ wnd.wnd_to_tap = 0)
    => (wnd.flags \cap ACK_TO_TAP_DUE # {} /\ wnd.timer = "ACK_INTERVAL")

(***************************************************************************)
(* Batches of data segments of the guest, in and out of order              *)
(***************************************************************************)
\* Segments from one byte before seq_from_tap to two bytes beyond it
DupSegs(seq_from_tap) ==
    [seq : {(seq_from_tap + o) % SeqMod : o \in -1..2}, len : 1..MaxSegLen]

DupBatches(seq_from_tap) ==
    UNION {[1..k -> DupSegs(seq_from_tap)] : k \in 1..MaxBatch}

DupEnvs ==
    [tinfo_err : BOOLEAN, needed : BOOLEAN, errno : {"EPIPE", "EAGAIN", "EBADF"}]

InitDup ==
    /\ IdleButDup
    /\ \E seq \in {0, 1, SeqMod - 1} : dup = DupStart(seq)

\* Frames with DUP_ACK queued by the last call
DupCount == Cardinality({k \in 1..Len(dup.frames) : dup.frames[k].dup})

DupRecord(d) ==
    [d EXCEPT !.dup_acked = @ \cup (IF \E k \in 1..Len(d.frames) : d.frames[k].dup
                                    THEN {d.seq_from_tap} ELSE {}),
              !.bytes = @ + ((d.seq_from_tap - d.seq0) % SeqMod)]

\* tcp_tap_handler() hands a batch of data segments to tcp_data_from_tap()
DupFromTap(p, n, e) ==
    /\ ~dup.closed
    /\ dup.bytes < MaxTapBytes
    /\ dup' = DupRecord(tcp_data_from_tap_batch(dup, p, n, e))
    /\ UNCHANGED exceptDup

\* sendmsg() fails, takes one byte, or takes every byte
DupSends == {-1, 1, MaxBatch * MaxSegLen}

NextDup ==
    \E p \in DupBatches(dup.seq_from_tap), n \in DupSends :
    \E e \in {x \in DupEnvs : n >= 0 => x.errno = "EAGAIN"} : DupFromTap(p, n, e)

SpecDup == InitDup /\ [][NextDup]_vars

\* C24: when a segment beyond seq_from_tap is left (the duplicate-ACK
\* condition), exactly one pair of identical ACK|DUP_ACK frames is queued,
\* unless a pair was queued for the same seq_from_tap before: then none is.
C24_OneDupAckPair ==
    (dup.called /\ dup.keep)
    => DupCount = (IF dup.seq_from_tap \in dup.prev_acked THEN 0 ELSE 2)

\* C24, amended: the pair is queued when the low bits of seq_from_tap differ
\* from the stamp seq_dup_ack_approx and getsockopt() does not fail; no pair
\* is queued when they are equal, as they are for the seq_from_tap of an
\* earlier pair; the two frames of a pair are identical.
C24_OneDupAckPairPerStamp ==
    (dup.called /\ dup.keep)
    => /\ DupCount = (IF \/ dup.seq_from_tap % (2 ^ DupBits) = dup.stamp0
                         \/ dup.tinfo_err
                      THEN 0 ELSE 2)
       /\ dup.seq_from_tap \in dup.prev_acked => DupCount = 0
       /\ \A j, k \in 1..Len(dup.frames) :
             (dup.frames[j].dup /\ dup.frames[k].dup) => dup.frames[j] = dup.frames[k]
       /\ dup.seq_dup_ack_approx = dup.seq_from_tap % (2 ^ DupBits)

\* A second batch leaves a segment beyond the same seq_from_tap for which a
\* pair was queued, and no pair is queued
C24_Witness ==
    /\ dup.called /\ dup.keep /\ ~dup.closed
    /\ dup.seq_from_tap \in dup.prev_acked
    /\ DupCount = 0

(***************************************************************************)
(* Clients connect to the AF_UNIX socket, close their end, connect again   *)
(***************************************************************************)
InitTapc == IdleButTapc /\ \E one_off \in BOOLEAN : tapc = TapcStart(one_off)

\* A client connects to the listening socket
TapcConnect ==
    /\ ~tapc.exited
    /\ tapc.pending < MaxPending
    /\ tapc.clients < MaxClients
    /\ tapc' = [tapc EXCEPT !.pending = @ + 1, !.clients = @ + 1]
    /\ UNCHANGED exceptTapc

\* The client of fd_tap closes its end
TapcPeerClose ==
    /\ ~tapc.exited
    /\ tapc.fd_tap # -1 /\ tapc.peer_open
    /\ tapc' = [tapc EXCEPT !.peer_open = FALSE]
    /\ UNCHANGED exceptTapc

\* An event on the listening socket: tap_listen_handler(); accept4() takes a
\* waiting client or fails
TapcListen(events, a) ==
    /\ ~tapc.exited
    /\ tapc.pending > 0
    /\ a # -1 => a \notin tapc.open
    /\ tapc' = [tap_listen_handler(tapc, events, a) EXCEPT
                   !.pending = IF events = {"EPOLLIN"} /\ a # -1 THEN @ - 1 ELSE @,
                   !.peer_open = IF events = {"EPOLLIN"} /\ a # -1 /\ tapc.fd_tap = -1
                                 THEN TRUE ELSE @,
                   !.last = [op |-> "listen", events |-> events, r |-> "none",
                             fd |-> tapc.fd_tap, a |-> a]]
    /\ UNCHANGED exceptTapc

\* An event on fd_tap: tap_handler_passt(); hang-up and end of file are seen
\* once the client closed its end
TapcHandler(events, r) ==
    /\ ~tapc.exited
    /\ tapc.fd_tap # -1
    /\ (events \cap {"EPOLLRDHUP", "EPOLLHUP"} # {} \/ r = "eof") => ~tapc.peer_open
    /\ tapc' = [tap_handler_passt_fd(tapc, events, r) EXCEPT
                   !.last = [op |-> "handler", events |-> events, r |-> r,
                             fd |-> tapc.fd_tap, a |-> -1]]
    /\ UNCHANGED exceptTapc

TapcEvents ==
    {{"EPOLLIN"}, {"EPOLLIN", "EPOLLRDHUP"}, {"EPOLLIN", "EPOLLRDHUP", "EPOLLHUP"},
     {"EPOLLHUP"}, {"EPOLLERR"}}

NextTapc ==
    \/ TapcConnect
    \/ TapcPeerClose
    \/ \E events \in {{"EPOLLIN"}, {"EPOLLERR"}}, a \in TapFds \cup {-1} :
          TapcListen(events, a)
    \/ \E events \in TapcEvents, r \in {"data", "eof", "EINTR", "EAGAIN", "err"} :
          TapcHandler(events, r)

SpecTapc == InitTapc /\ [][NextTapc]_vars

\* The process exits if one_off is set; otherwise the descriptor the handler
\* was called for is closed and out of epoll, and fd_tap is -1, so that
\* tap_listen_handler() accepts the next client
TapcReset ==
    IF tapc.one_off THEN tapc.exited
    ELSE /\ ~tapc.exited
         /\ tapc.fd_tap = -1
         /\ tapc.last.fd \notin tapc.open
         /\ tapc.last.fd \notin tapc.epoll

\* tap_listen_handler() without a client connected takes the waiting client
\* as the new fd_tap, registered with epoll
TapcAccepted ==
    (tapc.last.op = "listen" /\ tapc.last.events = {"EPOLLIN"}
     /\ tapc.last.fd = -1 /\ tapc.last.a # -1)
    => (tapc.fd_tap = tapc.last.a /\ tapc.last.a \in tapc.epoll
        /\ tapc.last.a \in tapc.open)

\* C21: when the connection of the client reports EPOLLHUP, or recv()
\* returns 0, the descriptor is closed and removed from epoll and the next
\* client is accepted, unless one_off is set: then the process exits.
C21_HupOrEofResets ==
    /\ (tapc.last.op = "handler"
        /\ ("EPOLLHUP" \in tapc.last.events \/ tapc.last.r = "eof"))
       => TapcReset
    /\ TapcAccepted

\* C21, amended: the reset follows EPOLLRDHUP, EPOLLHUP or EPOLLERR, or a
\* recv() failing with an error other than EINTR, EAGAIN and EWOULDBLOCK;
\* after anything else, recv() returning 0 included, the descriptor stays
\* open, registered and in use.
C21_HupOrErrorResets ==
    /\ tapc.last.op = "handler"
       => IF \/ tapc.last.events \cap {"EPOLLRDHUP", "EPOLLHUP", "EPOLLERR"} # {}
             \/ tapc.last.r = "err"
          THEN TapcReset
          ELSE /\ ~tapc.exited
               /\ tapc.fd_tap = tapc.last.fd
               /\ tapc.fd_tap \in tapc.open /\ tapc.fd_tap \in tapc.epoll
    /\ TapcAccepted

\* A client hung up, its descriptor was closed, and the next client was
\* accepted
C21_Witness ==
    /\ ~tapc.one_off /\ ~tapc.exited
    /\ tapc.last.op = "listen" /\ tapc.last.fd = -1
    /\ tapc.fd_tap # -1 /\ tapc.fd_tap \in tapc.epoll
    /\ tapc.clients - tapc.pending >= 2

(***************************************************************************)
(* Datagrams of the guest and for the guest, seconds passing, and the      *)
(* timer of the UDP bindings                                               *)
(***************************************************************************)
InitUdpt == IdleButUdpt /\ \E ports \in {{}, {0}} : udpt = UdptStart(ports)

\* A second passes
UdptClock ==
    /\ udpt.now < MaxNow
    /\ udpt' = [udpt EXCEPT !.now = @ + 1, !.op = "clock"]
    /\ UNCHANGED exceptUdpt

\* The lowest descriptor not in use, or -1
UdptNewFd ==
    IF UdptFds \ udpt.open = {} THEN -1
    ELSE CHOOSE fd \in UdptFds \ udpt.open : \A g \in UdptFds \ udpt.open : fd <= g

\* Datagrams of the guest: udp_tap_handler()
UdptFromTap(src, dns, s) ==
    /\ udpt' = [udp_tap_handler(udpt, src, dns, s) EXCEPT !.op = "tap"]
    /\ UNCHANGED exceptUdpt

\* A datagram for the guest on the socket of a port: udp_buf_sock_handler()
UdptFromSock(port, srcport, from) ==
    /\ udpt.map[UDP_ACT_TAP][port].sock >= 0
    /\ udpt' = [udp_buf_sock_handler(udpt, port, srcport, from) EXCEPT !.op = "sock"]
    /\ UNCHANGED exceptUdpt

\* A datagram from the namespace spliced to the host: udp_splice_sendfrom()
UdptSplice(src, dst, s) ==
    /\ udpt' = [udp_splice_sendfrom(udpt, src, dst, s) EXCEPT !.op = "splice"]
    /\ UNCHANGED exceptUdpt

\* The timer: udp_timer()
UdptTimer ==
    /\ udpt' = [udp_timer(udpt) EXCEPT !.op = "timer"]
    /\ UNCHANGED exceptUdpt

\* The timer with inbound ports forwarded in FWD_AUTO mode: udp_timer()
UdptTimerAuto(fmap, ok) ==
    /\ udpt.rebinds < MaxRebinds
    /\ udpt' = [udp_timer_auto(udpt, fmap, ok) EXCEPT !.op = "timer_auto",
                                                      !.rebinds = @ + 1]
    /\ UNCHANGED exceptUdpt

NextUdpt ==
    \/ UdptClock
    \/ \E src \in UdptPorts, dns \in BOOLEAN, s \in {-1, UdptNewFd} :
          UdptFromTap(src, dns, s)
    \/ \E port \in UdptPorts, srcport \in UdptPorts,
          from \in {"dns_host", "loopback", "remote"} :
          UdptFromSock(port, srcport, from)
    \/ \E s \in {-1, UdptNewFd} : UdptSplice(0, 1, s)
    \/ UdptTimer

SpecUdpt == InitUdpt /\ [][NextUdpt]_vars

\* Datagrams of the guest, seconds passing and the timer, with rebinding of
\* the inbound ports or without it
NextUdpr ==
    \/ UdptClock
    \/ \E src \in UdptPorts, dns \in BOOLEAN, s \in {-1, UdptNewFd} :
          UdptFromTap(src, dns, s)
    \/ UdptTimer
    \/ \E fmap \in SUBSET UdptPorts, ok \in BOOLEAN : UdptTimerAuto(fmap, ok)

SpecUdpr == InitUdpt /\ [][NextUdpr]_vars

\* The timer found the activity bit of the port set and its timestamp more
\* than UDP_CONN_TIMEOUT old
UdptExpired(type, port) ==
    /\ port \in udpt.act[type]
    /\ udpt.now - udpt.map[type][port].ts > UDP_CONN_TIMEOUT

\* C22: the timer closes the socket of every port whose activity bit is set
\* and whose timestamp is more than UDP_CONN_TIMEOUT old, removes it from
\* epoll, resets the entry of the port and clears its activity bit; it does
\* not close a binding that carried traffic within the last UDP_CONN_TIMEOUT
\* seconds.
C22_TimerClosesIdleOnly ==
    [][udpt'.op = "timer" =>
          \A port \in UdptPorts :
             /\ \A type \in {UDP_ACT_TAP, UDP_ACT_SPLICE_INIT, UDP_ACT_SPLICE_NS} :
                   UdptExpired(type, port)
                   => /\ udpt'.map[type][port].sock = -1
                      /\ udpt.map[type][port].sock \notin udpt'.open
                      /\ udpt.map[type][port].sock \notin udpt'.epoll
                      /\ port \notin udpt'.act[type]
             /\ (udpt.map[UDP_ACT_TAP][port].sock >= 0
                 /\ udpt.now - udpt.carried[port] <= UDP_CONN_TIMEOUT)
                => udpt'.map[UDP_ACT_TAP][port].sock = udpt.map[UDP_ACT_TAP][port].sock
    ]_vars

(***************************************************************************)
(* Ports of the namespace start and stop listening; each run of the timer  *)
(* scans them and rebinds                                                  *)
(***************************************************************************)
InitRebind ==
    /\ IdleButRebind
    /\ \E ifi \in {<<TRUE, TRUE>>, <<TRUE, FALSE>>}, rmap \in {{}, {1}} :
          rebind = RebindStart(ifi[1], ifi[2], rmap)

\* tcp_timer(): the scan finds the ports of listening in listening state
RebindTimer(listening, ok) ==
    /\ rebind' = [tcp_timer_fwd_in(rebind, listening, ok) EXCEPT
                     !.scans = IF @ < 2 THEN @ + 1 ELSE @]
    /\ UNCHANGED exceptRebind

NextRebind ==
    \E listening \in SUBSET RebindPorts,
       ok \in [RebindPorts -> [{"dual", "V4", "V6"} -> BOOLEAN]] :
       RebindTimer(listening, ok)

SpecRebind == InitRebind /\ [][NextRebind]_vars

\* C26: after a scan and rebind the sockets are held exactly for the ports
\* in the map: no listening socket is open for a port out of the map and
\* the entries of such a port are reset, every open listening socket is the
\* one its entry of the table holds, and a port in the map (not forwarded the
\* other way) has a socket for each address family in use, unless sock_l4()
\* failed for it in this rebind.
C26_SocketsMatchMap ==
    rebind.scans > 0 =>
       /\ \A port \in RebindPorts \ rebind.fmap :
             /\ rebind.tcp_sock_init_ext[port] = [v \in {"V4", "V6"} |-> -1]
             /\ \A o \in rebind.open : o.port # port
       /\ \A o \in rebind.open :
             \E v \in {"V4", "V6"} : rebind.tcp_sock_init_ext[o.port][v] = o.fd
       /\ \A port \in rebind.fmap \ rebind.rmap :
             \/ \E af \in {"dual", "V4", "V6"} : <<port, af>> \in rebind.failed
             \/ /\ rebind.ifi4 => rebind.tcp_sock_init_ext[port]["V4"] >= 0
                /\ rebind.ifi6 => rebind.tcp_sock_init_ext[port]["V6"] >= 0

\* C37: the ACK timeout resets a connection because retrans reached
\* TCP_MAX_RETRANS only if something sent to the guest is unacknowledged, that
\* is seq_ack_from_tap differs from seq_to_tap when the timer expires; a
\* connection with nothing in flight is not reset that way.
C37_RstNeedsInFlight ==
    [][seqs'.last = "max_retrans" => seqs.seq_ack_from_tap # seqs.seq_to_tap]_vars


(***************************************************************************)
(* One connection and its timer, time passing in ms                        *)
(***************************************************************************)
InitTmr == IdleButTmr /\ tmr = TmrStart

\* What the system calls give: all goes well, or one of them does otherwise
TmrOk ==
    [timerfd |-> TRUE, tinfo_err |-> FALSE, acked |-> TRUE, wnd_new |-> FALSE,
     wnd |-> TRUE, recv |-> "data", send |-> "all", consumed |-> TRUE]

TmrEnvs ==
    {TmrOk, [TmrOk EXCEPT !.timerfd = FALSE], [TmrOk EXCEPT !.tinfo_err = TRUE],
     [TmrOk EXCEPT !.acked = FALSE], [TmrOk EXCEPT !.wnd_new = TRUE],
     [TmrOk EXCEPT !.wnd = FALSE], [TmrOk EXCEPT !.consumed = FALSE]}
    \cup {[TmrOk EXCEPT !.recv = r] : r \in {"eagain", "eof", "err"}}
    \cup {[TmrOk EXCEPT !.send = r, !.acked = FALSE] : r \in {"part", "eagain", "err"}}

\* Segments of the guest: SYN,ACK; ACK of all, of some, of nothing new; data;
\* FIN; a segment without ACK; RST
TmrAck ==
    [rst |-> FALSE, syn |-> FALSE, ack |-> "all", data |-> FALSE, fin |-> FALSE]

TmrSegs ==
    {TmrAck, [TmrAck EXCEPT !.syn = TRUE], [TmrAck EXCEPT !.ack = "some"],
     [TmrAck EXCEPT !.ack = "old"], [TmrAck EXCEPT !.data = TRUE],
     [TmrAck EXCEPT !.ack = "old", !.data = TRUE], [TmrAck EXCEPT !.fin = TRUE],
     [TmrAck EXCEPT !.ack = "none"], [TmrAck EXCEPT !.ack = "none", !.rst = TRUE]}

\* The handler h ran. The connection is not followed further once it was
\* CLOSED.
TmrDone(t, h) ==
    [t EXCEPT !.last = IF h = "timer" THEN @ ELSE h,
              !.hs = IF /\ t.events \cap ESTABLISHED = {}
                        /\ t.events \cap (SOCK_ACCEPTED \cup TAP_SYN_ACK_SENT) # {}
                        /\ ~t.dead
                     THEN @ ELSE 0,
              !.left = IF t.dead THEN 0 ELSE @,
              !.expired = IF t.dead THEN FALSE ELSE @]

TmrOpen == tmr.last # "none" /\ ~tmr.dead

\* A connection is accepted on a listening socket
TmrAccept(e) ==
    /\ tmr.last = "none"
    /\ tmr' = TmrDone(tcp_tap_conn_from_sock_tm(tmr, e), "accept")
    /\ UNCHANGED exceptTmr

\* SYN segment of the guest
TmrSyn(connect, e) ==
    /\ tmr.last = "none"
    /\ tmr' = TmrDone(tcp_conn_from_tap_tm(tmr, connect, e), "syn")
    /\ UNCHANGED exceptTmr

\* A segment of the guest for the connection
TmrTap(seg, e) ==
    /\ TmrOpen
    /\ seg.ack = "some" => tmr.unacked
    /\ seg.syn => tmr.events \cap ESTABLISHED = {}
    /\ tmr' = TmrDone(tcp_tap_handler_tm(tmr, seg, e), "tap")
    /\ UNCHANGED exceptTmr

\* Events of the socket of the connection
TmrSock(events, so_err, e) ==
    /\ TmrOpen
    /\ so_err => tmr.events = TAP_SYN_RCVD
    /\ tmr' = TmrDone(tcp_sock_handler_tm(tmr, events, so_err, e), "sock")
    /\ UNCHANGED exceptTmr

\* The expiry of the timerfd is reported
TmrTimer(e) ==
    /\ TmrOpen
    /\ tmr.expired
    /\ tmr' = TmrDone(tcp_timer_handler_tm([tmr EXCEPT !.expired = FALSE], e),
                      "timer")
    /\ UNCHANGED exceptTmr

\* The connection waits for the guest to complete the handshake
TmrInHandshake ==
    /\ TmrOpen
    /\ tmr.events \cap ESTABLISHED = {}
    /\ tmr.events \cap (SOCK_ACCEPTED \cup TAP_SYN_ACK_SENT) # {}

\* Upper bound of hs: once beyond SYN_TIMEOUT it is not counted further
MaxHs == SYN_TIMEOUT * 1000 + 1

\* Time steps, ms
TmrSteps == {ACK_INTERVAL, ACK_TIMEOUT * 1000, SYN_TIMEOUT * 1000,
             FIN_TIMEOUT * 1000, ACT_TIMEOUT * 1000}

\* d ms pass: not beyond the expiry of the timer, which is handled at once,
\* and in one step up to it unless the timer was just set
TmrPass(d) ==
    /\ TmrOpen
    /\ ~tmr.expired
    /\ IF tmr.left > 0
       THEN d = tmr.left \/ (d \in TmrSteps /\ d < tmr.left
                             /\ tmr.left = timespec_ms(tmr.set))
       ELSE d \in {ACK_TIMEOUT * 1000, SYN_TIMEOUT * 1000}
    /\ tmr' = [tmr EXCEPT !.left = IF @ > 0 THEN @ - d ELSE 0,
                          !.expired = tmr.left = d,
                          !.hs = IF TmrInHandshake THEN MinOf(@ + d, MaxHs) ELSE 0,
                          !.last = "pass"]
    /\ UNCHANGED exceptTmr

NextTmr ==
    \/ \E e \in TmrEnvs : TmrAccept(e)
    \/ \E connect \in {"ok", "EINPROGRESS", "ECONNREFUSED"}, e \in TmrEnvs :
          TmrSyn(connect, e)
    \/ \E seg \in TmrSegs, e \in TmrEnvs : TmrTap(seg, e)
    \/ \E events \in {{"EPOLLIN"}, {"EPOLLIN", "EPOLLRDHUP"}, {"EPOLLOUT"},
                      {"EPOLLERR"}, {"EPOLLIN", "EPOLLRDHUP", "EPOLLHUP"}},
          so_err \in BOOLEAN, e \in TmrEnvs : TmrSock(events, so_err, e)
    \/ \E e \in TmrEnvs : TmrTimer(e)
    \/ \E d \in TmrSteps \cup {tmr.left} : TmrPass(d)

SpecTmr == InitTmr /\ [][NextTmr]_vars

\* C31: a connection whose handshake the guest does not complete within
\* SYN_TIMEOUT is reset when its timer expires: no connection, accepted from
\* a socket or started by a SYN of the guest, waits for the guest longer than
\* SYN_TIMEOUT after the SYN or SYN,ACK segment was sent. (A connection for
\* which timerfd_create() failed, ACK_FROM_TAP_DUE being set without a timer,
\* is left out.)
C31_HandshakeTimesOut ==
    (TmrInHandshake /\ ~(tmr.flags \cap ACK_FROM_TAP_DUE # {} /\ tmr.timer = -1))
       => tmr.hs <= SYN_TIMEOUT * 1000

\* The step is a run of tcp_timer_handler()
TmrTimerRan ==
    tmr'.last \in {"discard", "ack_to_tap", "handshake", "fin_timeout",
                   "max_retrans", "retry", "activity", "timer_set"}

\* C32: when the timer that was armed with ACT_TIMEOUT expires with neither
\* ACK_TO_TAP_DUE nor ACK_FROM_TAP_DUE set, tcp_timer_handler() resets the
\* connection.
C32_ActivityTimeoutResets ==
    [][(/\ TmrOpen /\ tmr.expired /\ tmr.left = 0
        /\ tmr.set = [tv_sec |-> ACT_TIMEOUT, tv_nsec |-> 0]
        /\ tmr.flags \cap (ACK_TO_TAP_DUE \cup ACK_FROM_TAP_DUE) = {}
        /\ TmrTimerRan)
       => tmr'.dead]_vars

\* The deadline in ms as the flags and events of c decide it
TmrDeadline(c) ==
    IF c.flags \cap ACK_TO_TAP_DUE # {} THEN 10
    ELSE IF c.flags \cap ACK_FROM_TAP_DUE # {}
    THEN IF c.events \cap ESTABLISHED = {} THEN 10 * 1000 ELSE 2 * 1000
    ELSE IF SOCK_FIN_SENT \subseteq c.events /\ TAP_FIN_ACKED \subseteq c.events
    THEN 60 * 1000
    ELSE 7200 * 1000

C34_HashMatchesFlows ==
    /\ \A b \in Buckets :
          tc_hash[b] # FLOW_SIDX_NONE =>
             /\ flowtab[tc_hash[b]].type = FLOW_TCP
             /\ flowtab[tc_hash[b]].events # CLOSED
    /\ \A i \in FlowIdx :
          (flowtab[i].type = FLOW_TCP /\ flowtab[i].events # CLOSED) =>
             Cardinality({b \in Buckets : tc_hash[b] = i}) = 1


(***************************************************************************)
(* One established connection and the batches of segments of its guest     *)
(***************************************************************************)
InitDft == IdleButDft /\ dft = DftStart(SeqMod - 1)

\* Where the segments of a batch start, from seq_from_tap: before it, at it,
\* after it, and MAX_WINDOW or more away from it
DftOffsets == {-MAX_WINDOW, -1, 0, 1, 2, MAX_WINDOW + 1}

\* The segments with FIN start at seq_from_tap
DftSegs(seq) ==
    {[seq |-> (seq + o) % SeqMod, len |-> l, fin |-> FALSE] :
        o \in DftOffsets, l \in 1..MaxDftLen}
    \cup {[seq |-> seq, len |-> l, fin |-> TRUE] : l \in 0..MaxDftLen}

DftBatches(seq) ==
    UNION {[1..k -> DftSegs(seq)] : k \in 1..MaxDftBatch}

DftEnvs ==
    [tinfo_err : {FALSE}, force : BOOLEAN, acked : {0, MaxDftBatch * MaxDftLen},
     wnd_new : BOOLEAN, errno : {"EAGAIN"}]
    \cup {[NoDftEnv EXCEPT !.tinfo_err = TRUE]}

\* Bytes sendmsg() is ready to take
DftSends == {1, 2, MaxDftBatch * MaxDftLen}

DftLive == dft.events # CLOSED /\ dft.ret = 0

\* A batch of the guest arrives, the socket takes up to n bytes
DftFromTap(p, n, e) ==
    /\ ~dft.called
    /\ dft' = tcp_data_from_tap_dft(dft, p, n, e)
    /\ UNCHANGED exceptDft

\* A batch of the guest arrives, sendmsg() fails
DftSendFails(p, errno, e) ==
    /\ ~dft.called
    /\ dft' = tcp_data_from_tap_dft(dft, p, -1, [e EXCEPT !.errno = errno])
    /\ UNCHANGED exceptDft

\* The guest sends the same segments once more after a partial send
DftAgain(n, e) ==
    /\ dft.partial_send
    /\ dft.calls < 2
    /\ DftLive
    /\ dft' = tcp_data_from_tap_dft(dft, dft.batch, n, e)
    /\ UNCHANGED exceptDft

NextDft ==
    \/ /\ ~dft.called
       /\ \E p \in DftBatches(dft.seq_from_tap), n \in DftSends, e \in DftEnvs :
              DftFromTap(p, n, e)
    \/ /\ ~dft.called
       /\ \E p \in DftBatches(dft.seq_from_tap),
             errno \in {"EPIPE", "EAGAIN", "EIO"}, e \in DftEnvs :
              DftSendFails(p, errno, e)
    \/ \E n \in DftSends, e \in DftEnvs : DftAgain(n, e)

SpecDft == InitDft /\ [][NextDft]_vars

\* Stream position, from dft.seq0, of the first byte of entry k of the
\* entries handed to sendmsg()
RECURSIVE DftBefore(_)
DftBefore(k) ==
    IF k = 1 THEN 0 ELSE DftBefore(k - 1) + dft.scan.iov[k - 1].iov_len

DftEntryInOrder(k) ==
    /\ dft.scan.iov[k].iov_len >= 1
    /\ dft.scan.iov[k].off + dft.scan.iov[k].iov_len
           <= dft.batch[dft.scan.iov[k].seg].len
    /\ (dft.batch[dft.scan.iov[k].seg].seq + dft.scan.iov[k].off) % SeqMod
           = (dft.seq0 + DftBefore(k)) % SeqMod

\* C35: whatever the batch, the scan of tcp_data_from_tap() ends, and the
\* entries it hands to sendmsg() are bytes of the segments that follow one
\* another in the stream of the guest from seq_from_tap on, each byte once
C35_ContiguousBytes ==
    dft.called =>
        /\ ~dft.scan.cut
        /\ \A k \in 1..Len(dft.scan.iov) : DftEntryInOrder(k)

\* A frame acknowledging seq is queued by the last tcp_data_from_tap()
DftAcked(seq) == \E k \in 1..Len(dft.frames) : dft.frames[k].ack = seq

C38_NoClosedDescriptorKept ==
    /\ udpt.reclosed = {}
    /\ \A type \in {UDP_ACT_TAP, UDP_ACT_SPLICE_INIT, UDP_ACT_SPLICE_NS},
       port \in UdptPorts :
       udpt.map[type][port].sock >= 0 => udpt.map[type][port].sock \in udpt.open

\* C39: a socket opened by udp_sock_init() for a forwarded port is not
\* closed by the timer, whatever the guest sends from the port.
C39_ForwardedNeverExpires ==
    [][udpt'.op = "timer" => udpt.orig \subseteq udpt'.open]_vars


(***************************************************************************)
(* Time passing and the deferred passes over the flows                     *)
(***************************************************************************)
InitFtm == IdleButFtm /\ ftm = FtmStart

\* Nanoseconds since the start of the clock
FtmNs(ts) == ts.tv_sec * NsPerMs * MsPerSec + ts.tv_nsec

FtmTimespec(ns) ==
    [tv_sec |-> ns \div (NsPerMs * MsPerSec), tv_nsec |-> ns % (NsPerMs * MsPerSec)]

\* d nanoseconds pass
FtmClock(d) ==
    /\ FtmNs(ftm.now) + d < (MaxSec + 1) * NsPerMs * MsPerSec
    /\ ftm' = [ftm EXCEPT !.now = FtmTimespec(FtmNs(ftm.now) + d), !.op = "clock"]
    /\ UNCHANGED exceptFtm

\* A pass of the main loop: flow_defer_handler()
FtmDefer ==
    /\ ftm' = [flow_defer_handler_timer(ftm, ftm.now) EXCEPT !.op = "defer"]
    /\ UNCHANGED exceptFtm

NextFtm ==
    \/ \E d \in 1..(NsPerMs * MsPerSec) : FtmClock(d)
    \/ FtmDefer

SpecFtm == InitFtm /\ [][NextFtm]_vars

\* C40: in a deferred pass timespec_diff_ms() gives the whole milliseconds
\* from the pass in which the timers last ran to now, and the timers run in
\* the pass exactly if that is FLOW_TIMER_INTERVAL or more.
C40_TimerRunsOnInterval ==
    ftm.op = "defer" =>
        /\ ftm.diff = (FtmNs(ftm.now) - FtmNs(ftm.prev_run)) \div NsPerMs
        /\ ftm.timer <=> (FtmNs(ftm.now) - FtmNs(ftm.prev_run)) \div NsPerMs
                             >= FLOW_TIMER_INTERVAL

====
